---------------------------- MODULE Spec2Model ----------------------------
(***************************************************************************)
(* A model of FBDocBot (fbdocbotx.py): the input parser and validator, the *)
(* spreadsheet assembler, and the manual / instant conversations that feed *)
(* them.                                                                   *)
(*                                                                         *)
(* Text is modelled as a sequence of one-character strings, so that the    *)
(* regular expressions and the str methods of the source (strip, split,    *)
(* splitlines, fullmatch) are computed character by character.             *)
(***************************************************************************)
EXTENDS Integers, Sequences, FiniteSets, TLC

\* ------------------------------------------------------------------------
\* Bounds of the model
\* ------------------------------------------------------------------------

\* Longest string of the exhaustive tokenizer inputs.
MaxLen == 5

\* Most tokens on one line of a generated instant message.
MaxTokens == 2

\* Most documents delivered in one behaviour of the bot.
MaxDocs == 2

\* Most digits of a generated UID, one more than UID_REGEX admits.
MaxDigits == 21

\* Longest list of tokens given to a field validator.
MaxList == 3

\* The last instant of the clock; an access granted for a duration expires
\* at instant 1.
MaxNow == 2

\* ------------------------------------------------------------------------
\* Program constants
\* ------------------------------------------------------------------------

\* UID_REGEX = ^[0-9]{8,20}$
UID_MIN_LEN == 8
UID_MAX_LEN == 20
\* PASSWORD_REGEX = ^[^\s]{6,64}$
PASSWORD_MIN_LEN == 6
PASSWORD_MAX_LEN == 64
\* validate_cookie: len(c) < 20
COOKIE_MIN_LEN == 20
\* FILENAME_REGEX = ^[A-Za-z0-9_-]{1,50}$
FILENAME_MAX_LEN == 50

\* ------------------------------------------------------------------------
\* Characters
\* ------------------------------------------------------------------------

Digits == {"0", "1", "2", "3", "4", "5", "6", "7", "8", "9"}

Lower == {"a", "b", "c", "d", "e", "f", "g", "h", "i", "j", "k", "l", "m",
          "n", "o", "p", "q", "r", "s", "t", "u", "v", "w", "x", "y", "z"}

Upper == {"A", "B", "C", "D", "E", "F", "G", "H", "I", "J", "K", "L", "M",
          "N", "O", "P", "Q", "R", "S", "T", "U", "V", "W", "X", "Y", "Z"}

\* \s of the re module, restricted to the characters of the model.
Whitespace == {" ", "\t", "\n", "\r"}

\* The line boundaries of str.splitlines, restricted likewise.
LineBreaks == {"\n", "\r"}

\* SPLIT_REGEX = [,\s]+  and has_delimiter's [,\s]
Delimiters == {","} \cup Whitespace

\* [A-Za-z0-9_]
CookieKeyChars == Digits \cup Lower \cup Upper \cup {"_"}

\* [^;=\n\r] over any character c
IsCookieValueChar(c) == c \notin {";", "=", "\n", "\r"}

\* [A-Za-z0-9_-]
FilenameChars == Digits \cup Lower \cup Upper \cup {"_", "-"}

\* ------------------------------------------------------------------------
\* str methods
\* ------------------------------------------------------------------------

Lowest(S) == CHOOSE i \in S : \A j \in S : i <= j

Highest(S) == CHOOSE i \in S : \A j \in S : j <= i

\* The first position from i on whose character is in S (is not in S), or
\* Len(s) + 1 when there is none.
FirstIn(s, i, S) ==
    LET hits == {j \in i..Len(s) : s[j] \in S}
    IN IF hits = {} THEN Len(s) + 1 ELSE Lowest(hits)

FirstNotIn(s, i, S) ==
    LET hits == {j \in i..Len(s) : s[j] \notin S}
    IN IF hits = {} THEN Len(s) + 1 ELSE Lowest(hits)

\* str.strip(): drops the leading and the trailing whitespace
strip(s) ==
    LET kept == {i \in 1..Len(s) : s[i] \notin Whitespace}
    IN IF kept = {} THEN <<>> ELSE SubSeq(s, Lowest(kept), Highest(kept))

\* substring test: sub in s
Contains(s, sub) ==
    \E i \in 1..(Len(s) - Len(sub) + 1) : SubSeq(s, i, i + Len(sub) - 1) = sub

\* str.splitlines(): a boundary is \r\n, \n or \r; text after the last
\* boundary is a line only when it is not empty.
RECURSIVE splitlines_from(_, _)
splitlines_from(s, i) ==
    IF i > Len(s) THEN <<>>
    ELSE LET j == FirstIn(s, i, LineBreaks)
             next == IF j < Len(s) /\ s[j] = "\r" /\ s[j + 1] = "\n"
                     THEN j + 2 ELSE j + 1
         IN <<SubSeq(s, i, j - 1)>> \o splitlines_from(s, next)

splitlines(s) == splitlines_from(s, 1)

\* [part.strip() for part in parts if part.strip()], the comprehension of
\* split_tokens and of parse_instant_message
RECURSIVE strip_nonempty(_)
strip_nonempty(parts) ==
    IF parts = <<>> THEN <<>>
    ELSE IF strip(Head(parts)) # <<>>
         THEN <<strip(Head(parts))>> \o strip_nonempty(Tail(parts))
         ELSE strip_nonempty(Tail(parts))

\* ------------------------------------------------------------------------
\* Tokenizer
\* ------------------------------------------------------------------------

\* SPLIT_REGEX.split(s): the text before each match of [,\s]+ and the text
\* after the last one; a match at either end leaves an empty piece there.
RECURSIVE re_split_from(_, _)
re_split_from(s, i) ==
    LET j == FirstIn(s, i, Delimiters)
    IN IF j > Len(s) THEN <<SubSeq(s, i, Len(s))>>
       ELSE <<SubSeq(s, i, j - 1)>>
            \o re_split_from(s, FirstNotIn(s, j, Delimiters))

re_split(s) == re_split_from(s, 1)

\* A tokenizer that also drops repeated tokens.
RECURSIVE dedup(_)
dedup(toks) ==
    IF toks = <<>> THEN <<>>
    ELSE LET rest == dedup(SubSeq(toks, 1, Len(toks) - 1))
             last == toks[Len(toks)]
         IN IF \E i \in 1..Len(rest) : rest[i] = last
            THEN rest ELSE Append(rest, last)

split_tokens_dedup(text) == dedup(strip_nonempty(re_split(strip(text))))

\* def split_tokens(text)
split_tokens(text) == strip_nonempty(re_split(strip(text)))

\* def has_delimiter(raw)
has_delimiter(raw) == \E i \in 1..Len(raw) : raw[i] \in Delimiters


\* ------------------------------------------------------------------------
\* Rejections: what a user-facing error message states
\* ------------------------------------------------------------------------

\* Stands for a part that a message does not contain.
Absent == <<"absent">>

\* kind: which rule failed; field, index, value: the element named in the
\* message; reason: the cookie rule quoted in it; counts: the numbers
\* interpolated into it, in order.
Rejection(kind, field, index, value, reason, counts) ==
    [kind |-> kind, field |-> field, index |-> index, value |-> value,
     reason |-> reason, counts |-> counts]

NoError == Rejection("none", "-", 0, Absent, "-", <<>>)

Accept == [ok |-> TRUE, err |-> NoError]

Reject(e) == [ok |-> FALSE, err |-> e]

\* Where a loop that remembers the last failure would stop.
LastOf(S) == Highest(S)

\* Where a for loop that returns on the first failure stops.
FirstOf(S) == Lowest(S)

\* ------------------------------------------------------------------------
\* Field validators
\* ------------------------------------------------------------------------

\* UID_REGEX.match(uid): "$" also matches before a final line feed.
UID_REGEX_match(uid) ==
    LET body == IF uid # <<>> /\ uid[Len(uid)] = "\n"
                THEN SubSeq(uid, 1, Len(uid) - 1) ELSE uid
    IN /\ Len(body) >= UID_MIN_LEN
       /\ Len(body) <= UID_MAX_LEN
       /\ \A i \in 1..Len(body) : body[i] \in Digits

\* UID_REGEX.fullmatch(uid)
UID_REGEX_fullmatch(uid) ==
    /\ Len(uid) >= UID_MIN_LEN
    /\ Len(uid) <= UID_MAX_LEN
    /\ \A i \in 1..Len(uid) : uid[i] \in Digits

\* PASSWORD_REGEX.fullmatch(pwd)
PASSWORD_REGEX_fullmatch(pwd) ==
    /\ Len(pwd) >= PASSWORD_MIN_LEN
    /\ Len(pwd) <= PASSWORD_MAX_LEN
    /\ \A i \in 1..Len(pwd) : pwd[i] \notin Whitespace

\* COOKIE_FORMAT_REGEX as an automaton:
\*   ^\s*  KEY = VALUE ( ; \s* KEY = VALUE )*  ;?  \s*$
\* start: in the leading \s*; key: inside a KEY; eq: just after "=";
\* val: inside a VALUE; semi: after a ";" (and any \s* that follows it);
\* trail: in the final \s* after a VALUE.
CookieStep(q, c) ==
    CASE q = "start" -> (IF c \in Whitespace THEN {"start"} ELSE {})
                        \cup (IF c \in CookieKeyChars THEN {"key"} ELSE {})
      [] q = "key"   -> (IF c \in CookieKeyChars THEN {"key"} ELSE {})
                        \cup (IF c = "=" THEN {"eq"} ELSE {})
      [] q = "eq"    -> (IF IsCookieValueChar(c) THEN {"val"} ELSE {})
      [] q = "val"   -> (IF IsCookieValueChar(c) THEN {"val"} ELSE {})
                        \cup (IF c = ";" THEN {"semi"} ELSE {})
                        \cup (IF c \in Whitespace THEN {"trail"} ELSE {})
      [] q = "semi"  -> (IF c \in Whitespace THEN {"semi"} ELSE {})
                        \cup (IF c \in CookieKeyChars THEN {"key"} ELSE {})
      [] q = "trail" -> (IF c \in Whitespace THEN {"trail"} ELSE {})

RECURSIVE CookieRun(_, _, _)
CookieRun(c, i, qs) ==
    IF i > Len(c) \/ qs = {} THEN qs
    ELSE CookieRun(c, i + 1, UNION {CookieStep(q, c[i]) : q \in qs})

\* COOKIE_FORMAT_REGEX.fullmatch(c)
COOKIE_FORMAT_REGEX_fullmatch(c) ==
    CookieRun(c, 1, {"start"}) \cap {"val", "semi", "trail"} # {}

C_USER == <<"c", "_", "u", "s", "e", "r", "=">>

XS == <<"x", "s", "=">>

\* A cookie validator without the minimum-length rule.
validate_cookie_no_min_length(cookie) ==
    LET c == strip(cookie)
    IN IF c = <<>> THEN [ok |-> FALSE, reason |-> "empty"]
       ELSE IF ~Contains(c, C_USER) \/ ~Contains(c, XS)
            THEN [ok |-> FALSE, reason |-> "required_substring"]
       ELSE IF ~COOKIE_FORMAT_REGEX_fullmatch(c)
            THEN [ok |-> FALSE, reason |-> "format"]
       ELSE [ok |-> TRUE, reason |-> "-"]

\* A cookie validator that matches the grammar before it looks for the
\* two names.
validate_cookie_format_first(cookie) ==
    LET c == strip(cookie)
    IN IF c = <<>> THEN [ok |-> FALSE, reason |-> "empty"]
       ELSE IF Len(c) < COOKIE_MIN_LEN
            THEN [ok |-> FALSE, reason |-> "min_length"]
       ELSE IF ~COOKIE_FORMAT_REGEX_fullmatch(c)
            THEN [ok |-> FALSE, reason |-> "format"]
       ELSE IF ~Contains(c, C_USER) \/ ~Contains(c, XS)
            THEN [ok |-> FALSE, reason |-> "required_substring"]
       ELSE [ok |-> TRUE, reason |-> "-"]

\* A cookie validator without the rule of the required substrings.
validate_cookie_any_keys(cookie) ==
    LET c == strip(cookie)
    IN IF c = <<>> THEN [ok |-> FALSE, reason |-> "empty"]
       ELSE IF Len(c) < COOKIE_MIN_LEN
            THEN [ok |-> FALSE, reason |-> "min_length"]
       ELSE IF ~COOKIE_FORMAT_REGEX_fullmatch(c)
            THEN [ok |-> FALSE, reason |-> "format"]
       ELSE [ok |-> TRUE, reason |-> "-"]

\* def validate_cookie(cookie): the reason of the first rule that fails
validate_cookie(cookie) ==
    LET c == strip(cookie)
    IN IF c = <<>> THEN [ok |-> FALSE, reason |-> "empty"]
       ELSE IF Len(c) < COOKIE_MIN_LEN
            THEN [ok |-> FALSE, reason |-> "min_length"]
       ELSE IF ~Contains(c, C_USER) \/ ~Contains(c, XS)
            THEN [ok |-> FALSE, reason |-> "required_substring"]
       ELSE IF ~COOKIE_FORMAT_REGEX_fullmatch(c)
            THEN [ok |-> FALSE, reason |-> "format"]
       ELSE [ok |-> TRUE, reason |-> "-"]

\* def validate_uids(uids): the message names the index and the value
validate_uids(uids) ==
    LET bad == {i \in 1..Len(uids) : ~UID_REGEX_fullmatch(uids[i])}
    IN IF uids = <<>>
       THEN Reject(Rejection("EmptyField", "uid", 0, Absent, "-", <<>>))
       ELSE IF bad # {}
            THEN Reject(Rejection("InvalidFormat", "uid", FirstOf(bad),
                                  uids[FirstOf(bad)], "-", <<>>))
       ELSE Accept

\* A password validator whose message quotes the invalid password.
validate_passwords_quoting(passwords) ==
    LET bad == {i \in 1..Len(passwords) :
                    ~PASSWORD_REGEX_fullmatch(passwords[i])}
    IN IF passwords = <<>>
       THEN Reject(Rejection("EmptyField", "password", 0, Absent, "-", <<>>))
       ELSE IF bad # {}
            THEN Reject(Rejection("InvalidFormat", "password", FirstOf(bad),
                                  passwords[FirstOf(bad)], "-", <<>>))
       ELSE Accept

\* def validate_passwords(passwords): the message names the index only
validate_passwords(passwords) ==
    LET bad == {i \in 1..Len(passwords) :
                    ~PASSWORD_REGEX_fullmatch(passwords[i])}
    IN IF passwords = <<>>
       THEN Reject(Rejection("EmptyField", "password", 0, Absent, "-", <<>>))
       ELSE IF bad # {}
            THEN Reject(Rejection("InvalidFormat", "password", FirstOf(bad),
                                  Absent, "-", <<>>))
       ELSE Accept

\* def validate_cookies(cookies): the message names the index and the reason
validate_cookies(cookies) ==
    LET bad == {i \in 1..Len(cookies) : ~validate_cookie(cookies[i]).ok}
    IN IF cookies = <<>>
       THEN Reject(Rejection("EmptyField", "cookie", 0, Absent, "-", <<>>))
       ELSE IF bad # {}
            THEN Reject(Rejection("InvalidFormat", "cookie", FirstOf(bad),
                                  Absent,
                                  validate_cookie(cookies[FirstOf(bad)]).reason,
                                  <<>>))
       ELSE Accept

\* ------------------------------------------------------------------------
\* Instant-mode parser
\* ------------------------------------------------------------------------

\* @dataclass ParsedInput
ParsedInput(uids, passwords, cookies) ==
    [uids |-> uids, passwords |-> passwords, cookies |-> cookies]

\* The (ok, err, parsed) triple a parse returns; parsed is <<>> for None.
ParseFailure(e) == [ok |-> FALSE, err |-> e, parsed |-> <<>>]

ParseSuccess(p) == [ok |-> TRUE, err |-> NoError, parsed |-> <<p>>]

\* lines = [ln.strip() for ln in text.splitlines() if ln.strip()]
nonempty_lines(text) == strip_nonempty(splitlines(text))

\* The same checks, returning the UIDs without repetitions.
validate_triple_dedup(uids, passwords, cookies) ==
    IF ~validate_uids(uids).ok
    THEN ParseFailure(validate_uids(uids).err)
    ELSE IF ~validate_passwords(passwords).ok
         THEN ParseFailure(validate_passwords(passwords).err)
    ELSE IF ~validate_cookies(cookies).ok
         THEN ParseFailure(validate_cookies(cookies).err)
    ELSE IF ~(Len(uids) = Len(passwords) /\ Len(passwords) = Len(cookies))
         THEN ParseFailure(Rejection("CountMismatch", "-", 0, Absent, "-",
                              <<Len(uids), Len(passwords), Len(cookies)>>))
    ELSE ParseSuccess(ParsedInput(dedup(uids), passwords, cookies))

\* The same checks, comparing only the UID and the password counts.
validate_triple_two_counts(uids, passwords, cookies) ==
    IF ~validate_uids(uids).ok
    THEN ParseFailure(validate_uids(uids).err)
    ELSE IF ~validate_passwords(passwords).ok
         THEN ParseFailure(validate_passwords(passwords).err)
    ELSE IF ~validate_cookies(cookies).ok
         THEN ParseFailure(validate_cookies(cookies).err)
    ELSE IF ~(Len(uids) = Len(passwords))
         THEN ParseFailure(Rejection("CountMismatch", "-", 0, Absent, "-",
                              <<Len(uids), Len(passwords), Len(cookies)>>))
    ELSE ParseSuccess(ParsedInput(uids, passwords, cookies))

\* The same checks with the count comparison made first.
validate_triple_count_first(uids, passwords, cookies) ==
    IF ~(Len(uids) = Len(passwords) /\ Len(passwords) = Len(cookies))
    THEN ParseFailure(Rejection("CountMismatch", "-", 0, Absent, "-",
                         <<Len(uids), Len(passwords), Len(cookies)>>))
    ELSE IF ~validate_uids(uids).ok
         THEN ParseFailure(validate_uids(uids).err)
    ELSE IF ~validate_passwords(passwords).ok
         THEN ParseFailure(validate_passwords(passwords).err)
    ELSE IF ~validate_cookies(cookies).ok
         THEN ParseFailure(validate_cookies(cookies).err)
    ELSE ParseSuccess(ParsedInput(uids, passwords, cookies))

\* The checks of parse_instant_message on the three token lists, in the
\* order of the source.
validate_triple(uids, passwords, cookies) ==
    IF ~validate_uids(uids).ok
    THEN ParseFailure(validate_uids(uids).err)
    ELSE IF ~validate_passwords(passwords).ok
         THEN ParseFailure(validate_passwords(passwords).err)
    ELSE IF ~validate_cookies(cookies).ok
         THEN ParseFailure(validate_cookies(cookies).err)
    ELSE IF ~(Len(uids) = Len(passwords) /\ Len(passwords) = Len(cookies))
         THEN ParseFailure(Rejection("CountMismatch", "-", 0, Absent, "-",
                              <<Len(uids), Len(passwords), Len(cookies)>>))
    ELSE ParseSuccess(ParsedInput(uids, passwords, cookies))

\* A parser that validates the UID line before it counts the lines.
parse_instant_message_uid_first(text) ==
    LET lines == nonempty_lines(text)
    IN IF Len(lines) >= 1 /\ ~validate_uids(split_tokens(lines[1])).ok
       THEN ParseFailure(validate_uids(split_tokens(lines[1])).err)
       ELSE IF Len(lines) < 3
       THEN ParseFailure(Rejection("InsufficientLines", "-", 0, Absent, "-",
                                   <<>>))
       ELSE validate_triple(split_tokens(lines[1]), split_tokens(lines[2]),
                            split_tokens(lines[3]))

\* A parser that reads the cookies from the last line.
parse_instant_message_last_line(text) ==
    LET lines == nonempty_lines(text)
    IN IF Len(lines) < 3
       THEN ParseFailure(Rejection("InsufficientLines", "-", 0, Absent, "-",
                                   <<>>))
       ELSE validate_triple(split_tokens(lines[1]), split_tokens(lines[2]),
                            split_tokens(lines[Len(lines)]))

\* def parse_instant_message(text)
parse_instant_message(text) ==
    LET lines == nonempty_lines(text)
    IN IF Len(lines) < 3
       THEN ParseFailure(Rejection("InsufficientLines", "-", 0, Absent, "-",
                                   <<>>))
       ELSE validate_triple(split_tokens(lines[1]), split_tokens(lines[2]),
                            split_tokens(lines[3]))


\* ------------------------------------------------------------------------
\* Spreadsheet assembler and file name
\* ------------------------------------------------------------------------

Min(a, b) == IF a <= b THEN a ELSE b

HeaderRow == <<"UID", "PASSWORD", "COOKIE">>

\* zip(data.uids, data.passwords, data.cookies): stops at the shortest
zip3(data) ==
    [i \in 1..Min(Len(data.uids), Min(Len(data.passwords), Len(data.cookies)))
        |-> <<data.uids[i], data.passwords[i], data.cookies[i]>>]

\* An assembler that writes the data rows last to first.
build_xlsx_file_reversed(data) ==
    <<HeaderRow>> \o [i \in 1..Len(zip3(data)) |->
                         zip3(data)[Len(zip3(data)) + 1 - i]]

\* def build_xlsx_file(data): the rows of the sheet "DATA", top to bottom
build_xlsx_file(data) == <<HeaderRow>> \o zip3(data)

\* ------------------------------------------------------------------------
\* State
\* ------------------------------------------------------------------------

VARIABLES
    input,          \* the argument drawn for a function under study
    output,         \* what the function returned for it
    doc,            \* the rows rendered from a successful parse
    pc,             \* drawn -> done -> rendered
    update,         \* the last update dispatched, and the handler it went to
    manual_state,   \* state of manual_conversation for the user
    instant_state,  \* state of instant_conversation for the user
    user_data,      \* context.user_data of the sender, a dict
    reply,          \* the messages the last handler sent, in order
    built,          \* the ParsedInput the last handler gave build_xlsx_file
    delivered,      \* the document the last handler sent
    store,          \* bot_data.json
    now,            \* utc_now(), in instants
    admin_state,    \* state of admin_conversation, for each user
    inv_state,      \* state of inventori_conversation, for each user
    gen_state,      \* state of inventori_gen_conversation, for each user
    users_data,     \* context.user_data of each user in the admin and
                    \* inventory conversations
    INVENTORY_STORE,    \* _INVENTORY_STORE: the entries of each user
    INVENTORY_META      \* _INVENTORY_META: the InventoryMeta of each user

fun_vars == <<input, output, doc, pc>>

\* The conversations and the module state that the manual and the instant
\* flow never touch.
side_vars == <<admin_state, inv_state, gen_state, users_data,
               INVENTORY_STORE, INVENTORY_META>>

bot_vars == <<update, manual_state, instant_state, user_data, reply, built,
              delivered, store, now, side_vars>>

vars == <<input, output, doc, pc, update, manual_state, instant_state,
          user_data, reply, built, delivered, store, now, admin_state,
          inv_state, gen_state, users_data, INVENTORY_STORE,
          INVENTORY_META>>

\* ConversationHandler.END, and a conversation that was never entered
END == "END"

\* An empty dict
EmptyDict == <<>>

\* d.get(k, default) and d[k] = v on a dict
Get(d, k, default) == IF k \in DOMAIN d THEN d[k] ELSE default

Put(d, k, v) == [x \in DOMAIN d \cup {k} |-> IF x = k THEN v ELSE d[x]]

\* load_store() when bot_data.json does not exist.  The counters
\* total_messages_processed and last_broadcast_at and the users'
\* last_seen_at are left out: no handler reads them back.
EmptyStore ==
    [users |-> EmptyDict, blocked |-> {},
     stats |-> [total_docs_created |-> 0]]

\* No update was dispatched yet.
NoUpdate == [kind |-> "none", text |-> <<>>, handler |-> "none", sender |-> 0]

\* The bot just started and has handled no update.
\* The users whose updates are followed: the administrator and a user who
\* is none.
Users == {1, 2}

\* No user is in a state of the admin or the inventory conversations and
\* the dicts of the inventory module are empty, as at import.
SideIdle ==
    /\ admin_state = [u \in Users |-> END]
    /\ inv_state = [u \in Users |-> END]
    /\ gen_state = [u \in Users |-> END]
    /\ users_data = [u \in Users |-> EmptyDict]
    /\ INVENTORY_STORE = EmptyDict
    /\ INVENTORY_META = EmptyDict

BotIdle ==
    /\ SideIdle
    /\ update = NoUpdate
    /\ manual_state = END
    /\ instant_state = END
    /\ user_data = EmptyDict
    /\ reply = <<>>
    /\ built = <<>>
    /\ delivered = <<>>
    /\ now = 0

FunIdle ==
    /\ input = <<>>
    /\ output = <<>>
    /\ doc = <<>>
    /\ pc = "idle"

\* ------------------------------------------------------------------------
\* The tokenizer on every short string
\* ------------------------------------------------------------------------

StrUpTo(S, n) == UNION {[1..k -> S] : k \in 0..n}

TokAlphabet == {"a", "b", ",", " ", "\n"}

\* "a, b  c\nd"
TokExample == <<"a", ",", " ", "b", " ", " ", "c", "\n", "d">>

InitTok ==
    /\ input \in StrUpTo(TokAlphabet, MaxLen) \cup {TokExample}
    /\ output = <<>>
    /\ doc = <<>>
    /\ pc = "drawn"
    /\ BotIdle
    /\ store = EmptyStore

ApplySplitTokens ==
    /\ pc = "drawn"
    /\ output' = split_tokens(input)
    /\ pc' = "done"
    /\ UNCHANGED <<input, doc>>
    /\ UNCHANGED bot_vars

NextTok == ApplySplitTokens

SpecTok == InitTok /\ [][NextTok]_vars

\* The positions where a maximal run of non-delimiter characters starts,
\* and where the run that starts at i ends.
RunStarts(s) ==
    {i \in 1..Len(s) : s[i] \notin Delimiters
                       /\ (i = 1 \/ s[i - 1] \in Delimiters)}

RunEnd(s, i) ==
    CHOOSE j \in i..Len(s) :
        /\ \A k \in i..j : s[k] \notin Delimiters
        /\ (j = Len(s) \/ s[j + 1] \in Delimiters)

KthOf(S, k) == CHOOSE x \in S : Cardinality({y \in S : y < x}) = k - 1

\* C10: split_tokens returns exactly the maximal runs of characters that are
\* neither a comma nor whitespace, in input order, repeated ones included;
\* no token is empty or holds a comma or whitespace; and "a, b  c\nd" gives
\* ["a", "b", "c", "d"].
C10_SplitTokensRuns ==
    pc = "done" =>
        /\ Len(output) = Cardinality(RunStarts(input))
        /\ \A k \in 1..Len(output) :
              /\ output[k] # <<>>
              /\ \A j \in 1..Len(output[k]) : output[k][j] \notin Delimiters
              /\ output[k] = SubSeq(input, KthOf(RunStarts(input), k),
                                    RunEnd(input, KthOf(RunStarts(input), k)))
        /\ (input = TokExample
              => output = << <<"a">>, <<"b">>, <<"c">>, <<"d">> >>)

\* A run of two delimiters between two equal tokens, tokenized.
C10_Witness ==
    /\ pc = "done"
    /\ input = <<"a", ",", " ", "a">>
    /\ output = << <<"a">>, <<"a">> >>


\* ------------------------------------------------------------------------
\* The instant-mode parser on generated messages
\* ------------------------------------------------------------------------

\* Tokens a user may type.  A UID is one of two that satisfy UID_REGEX or
\* one that does not, so that a line may repeat a UID.  The k-th password
\* and the k-th cookie of a line are the k-th valid one or an invalid one,
\* so that the valid ones of a line all differ.
Uid1 == <<"1", "2", "3", "4", "5", "6", "7", "8">>

Uid2 == <<"8", "7", "6", "5", "4", "3", "2", "1">>

UidBad == <<"a", "b", "c">>

DigitAt == <<"1", "2", "3", "4", "5", "6", "7", "8", "9">>

\* "Secret1", "Secret2", ...
PwdAt(k) == <<"S", "e", "c", "r", "e", "t", DigitAt[k]>>

PwdBad == <<"s", "h", "o", "r", "t">>

\* "c_user=12345678;xs=1" (20 characters), "c_user=12345678;xs=2;", ...
CookieAt(k) ==
    C_USER \o Uid1 \o <<";">> \o XS \o <<DigitAt[k]>>
    \o (IF k % 2 = 0 THEN <<";">> ELSE <<>>)

\* "c_user=1;xs=a;" and "c_user=2;xs=b;": 14 characters each
CookieShort1 == C_USER \o <<"1", ";">> \o XS \o <<"a", ";">>

CookieShort2 == C_USER \o <<"2", ";">> \o XS \o <<"b", ";">>

GoodUids == {Uid1, Uid2}

GoodPasswords == {PwdAt(k) : k \in DOMAIN DigitAt}

GoodCookies == {CookieAt(k) : k \in DOMAIN DigitAt}

SeqUpTo(S, n) == UNION {[1..k -> S] : k \in 0..n}

UidLines == SeqUpTo(GoodUids \cup {UidBad}, MaxTokens)

PasswordLines ==
    {[i \in DOMAIN b |-> IF b[i] THEN PwdAt(i) ELSE PwdBad] :
        b \in SeqUpTo(BOOLEAN, MaxTokens)}

CookieLines ==
    {[i \in DOMAIN b |-> IF b[i] THEN CookieAt(i) ELSE CookieShort1] :
        b \in SeqUpTo(BOOLEAN, MaxTokens)}

\* How the lines of a message are laid out: the separator between tokens,
\* the text between lines, the text before the first and after the last
\* line, and the lines that follow the third one.
Layout(name) ==
    CASE name = "plain" ->
            [sep |-> <<" ">>, eol |-> <<"\n">>, lead |-> <<>>,
             trail |-> <<>>, extra |-> <<>>]
      [] name = "crlf" ->
            [sep |-> <<",", " ">>, eol |-> <<"\r", "\n">>, lead |-> <<>>,
             trail |-> <<"\r", "\n">>, extra |-> <<<<"z", "z", "z">>>>]
      [] name = "blank" ->
            [sep |-> <<"\t">>, eol |-> <<"\n", " ", "\n">>,
             lead |-> <<" ", "\n">>, trail |-> <<"\n">>,
             extra |-> <<Uid1 \o <<" ">> \o Uid2, PwdBad>>]

Layouts == {"plain", "crlf", "blank"}

RECURSIVE Join(_, _)
Join(parts, sep) ==
    IF parts = <<>> THEN <<>>
    ELSE IF Len(parts) = 1 THEN parts[1]
    ELSE parts[1] \o sep \o Join(Tail(parts), sep)

\* One line of tokens; a line without tokens is a lone comma.
TokenLine(toks, sep) == IF toks = <<>> THEN <<",">> ELSE Join(toks, sep)

\* The message of n field lines (UIDs, passwords, cookies, in this order)
\* followed by the lines of extra.
Message(u, p, c, n, layout, extra) ==
    LET l == Layout(layout)
        fields == <<TokenLine(u, l.sep), TokenLine(p, l.sep),
                    TokenLine(c, l.sep)>>
    IN l.lead \o Join(SubSeq(fields, 1, n) \o extra, l.eol) \o l.trail

ExtraLines(n, layout) == IF n = 3 THEN Layout(layout).extra ELSE <<>>

Draw(u, p, c, n, layout) ==
    [u |-> u, p |-> p, c |-> c, n |-> n, layout |-> layout,
     text |-> Message(u, p, c, n, layout, ExtraLines(n, layout))]

\* The example of the specification: UID line "12345678 87654321",
\* password line "Secret1 Secret2", cookie line
\* "c_user=1;xs=a; c_user=2;xs=b;".
ExampleInput ==
    Draw(<<Uid1, Uid2>>, <<PwdAt(1), PwdAt(2)>>,
         <<CookieShort1, CookieShort2>>, 3, "plain")

\* The same message with cookies of at least 20 characters:
\* "c_user=12345678;xs=1 c_user=12345678;xs=2;".
LongCookieInput ==
    Draw(<<Uid1, Uid2>>, <<PwdAt(1), PwdAt(2)>>,
         <<CookieAt(1), CookieAt(2)>>, 3, "plain")

\* The messages drawn: n field lines, the lines of a field that is absent
\* left empty, and the example of the specification.
IsParseInput(u, p, c, n) ==
    /\ (n < 3 => c = <<>>)
    /\ (n < 2 => p = <<>>)
    /\ (n < 1 => u = <<>>)

InitParse ==
    /\ \/ \E u \in UidLines, p \in PasswordLines, c \in CookieLines,
            n \in 0..3, l \in Layouts :
               /\ IsParseInput(u, p, c, n)
               /\ input = Draw(u, p, c, n, l)
       \/ input = ExampleInput
    /\ output = <<>>
    /\ doc = <<>>
    /\ pc = "drawn"
    /\ BotIdle
    /\ store = EmptyStore

ApplyParse ==
    /\ pc = "drawn"
    /\ output' = parse_instant_message(input.text)
    /\ pc' = "done"
    /\ UNCHANGED <<input, doc>>
    /\ UNCHANGED bot_vars

ApplyRender ==
    /\ pc = "done"
    /\ output.ok
    /\ doc' = build_xlsx_file(output.parsed[1])
    /\ pc' = "rendered"
    /\ UNCHANGED <<input, output>>
    /\ UNCHANGED bot_vars

NextParse == ApplyParse \/ ApplyRender

SpecParse == InitParse /\ [][NextParse]_vars


\* Every token of a non-empty line is one of S.
AllGood(toks, S) == toks # <<>> /\ \A i \in 1..Len(toks) : toks[i] \in S

Parsed == pc \in {"done", "rendered"}

\* C3 as stated: the example message parses to a triple of length 2 and
\* renders to a 3-row document whose row 2 is
\* ("12345678", "Secret1", "c_user=1;xs=a;").
C3_ExampleAccepted ==
    (input = ExampleInput /\ Parsed) =>
        /\ output.ok
        /\ Len(output.parsed[1].uids) = 2
        /\ (pc = "rendered" =>
               /\ Len(doc) = 3
               /\ doc[2] = <<Uid1, PwdAt(1), CookieShort1>>)

\* C3, amended: the example message is rejected, because its first cookie
\* "c_user=1;xs=a;" has 14 characters and the minimum is 20; no triple is
\* returned and nothing is rendered.  With cookies of at least 20
\* characters ("c_user=12345678;xs=1 c_user=12345678;xs=2;") the message
\* parses to a triple of length 2 and renders to a 3-row document whose
\* row 2 is ("12345678", "Secret1", "c_user=12345678;xs=1").
C3_ExampleRejectedForLength ==
    /\ (input = ExampleInput /\ Parsed) =>
          /\ output = ParseFailure(Rejection("InvalidFormat", "cookie", 1,
                                             Absent, "min_length", <<>>))
          /\ pc # "rendered"
    /\ (input = LongCookieInput /\ Parsed) =>
          /\ output.ok
          /\ Len(output.parsed[1].uids) = 2
          /\ Len(output.parsed[1].passwords) = 2
          /\ Len(output.parsed[1].cookies) = 2
          /\ (pc = "rendered" =>
                 /\ Len(doc) = 3
                 /\ doc[1] = HeaderRow
                 /\ doc[2] = <<Uid1, PwdAt(1), CookieAt(1)>>
                 /\ doc[3] = <<Uid2, PwdAt(2), CookieAt(2)>>)

\* The example message, parsed and rejected.
C3_Witness == input = ExampleInput /\ pc = "done" /\ ~output.ok

\* C4: when the three field lines hold U, P, C of equal positive length and
\* every token satisfies its field's rule, the parse succeeds and returns
\* exactly (U, P, C), in order and with repetitions kept.
C4_ValidTripleUnchanged ==
    (/\ Parsed
     /\ input.n = 3
     /\ AllGood(input.u, GoodUids)
     /\ AllGood(input.p, GoodPasswords)
     /\ AllGood(input.c, GoodCookies)
     /\ Len(input.u) = Len(input.p)
     /\ Len(input.p) = Len(input.c))
    => output = ParseSuccess(ParsedInput(input.u, input.p, input.c))

\* A message that repeats a UID, laid out with blank lines, tabs and two
\* further lines, parsed.
C4_Witness ==
    /\ pc = "done"
    /\ input.n = 3
    /\ input.layout = "blank"
    /\ input.u = <<Uid1, Uid1>>
    /\ input.p = <<PwdAt(1), PwdAt(2)>>
    /\ input.c = <<CookieAt(1), CookieAt(2)>>
    /\ output.ok

\* C5: when every token satisfies its field's rule and the three lengths are
\* not all equal, the parse fails with CountMismatch, the message states
\* len(U), len(P), len(C) in this order, and no triple is returned.
C5_CountMismatchStatesLengths ==
    (/\ Parsed
     /\ input.n = 3
     /\ AllGood(input.u, GoodUids)
     /\ AllGood(input.p, GoodPasswords)
     /\ AllGood(input.c, GoodCookies)
     /\ (Len(input.u) # Len(input.p) \/ Len(input.p) # Len(input.c)))
    => output = ParseFailure(Rejection("CountMismatch", "-", 0, Absent, "-",
                    <<Len(input.u), Len(input.p), Len(input.c)>>))

\* Two UIDs, two passwords and one cookie, all valid, parsed.
C5_Witness ==
    /\ pc = "done"
    /\ input.n = 3
    /\ Len(input.u) = 2 /\ Len(input.p) = 2 /\ Len(input.c) = 1
    /\ output.err.kind = "CountMismatch"
    /\ output.err.counts = <<2, 2, 1>>

\* C7: the rejection returned is that of the first failing stage in the
\* order UID, password, cookie, count; a count mismatch is reported only
\* when all three fields are valid.
C7_FirstFailingStage ==
    (Parsed /\ input.n = 3) =>
        LET ubad == ~AllGood(input.u, GoodUids)
            pbad == ~AllGood(input.p, GoodPasswords)
            cbad == ~AllGood(input.c, GoodCookies)
            uneven == Len(input.u) # Len(input.p)
                      \/ Len(input.p) # Len(input.c)
            stage == IF output.err.kind \in {"EmptyField", "InvalidFormat"}
                     THEN output.err.field ELSE output.err.kind
        IN /\ ubad => stage = "uid"
           /\ (~ubad /\ pbad) => stage = "password"
           /\ (~ubad /\ ~pbad /\ cbad) => stage = "cookie"
           /\ (~ubad /\ ~pbad /\ ~cbad /\ uneven) => stage = "CountMismatch"
           /\ (~ubad /\ ~pbad /\ ~cbad /\ ~uneven) => stage = "none"

\* A message with an invalid UID, an invalid password, an invalid cookie
\* and uneven counts, parsed.
C7_Witness ==
    /\ pc = "done"
    /\ input.n = 3
    /\ input.u = <<Uid1, UidBad>>
    /\ input.p = <<PwdBad>>
    /\ input.c = <<CookieShort1, CookieAt(2)>>
    /\ output.err.field = "uid"

\* C8: a message with fewer than three non-empty lines fails with
\* InsufficientLines whatever its lines hold.
C8_FewerThanThreeLines ==
    (Parsed /\ input.n < 3) =>
        output = ParseFailure(Rejection("InsufficientLines", "-", 0, Absent,
                                        "-", <<>>))

\* A two-line message with an invalid UID line and whitespace-only lines
\* around it, parsed.
C8_Witness ==
    /\ pc = "done"
    /\ input.n = 2
    /\ input.layout = "blank"
    /\ input.u = <<UidBad>>
    /\ input.p = <<PwdAt(1)>>
    /\ output.err.kind = "InsufficientLines"

\* Lines that may follow the third one.
ExtraChoices ==
    {<<>>, <<<<"z", "z", "z">>>>, <<Uid1 \o <<" ">> \o Uid2, PwdBad>>,
     <<CookieAt(1)>>, <<CookieShort1, Uid1, PwdAt(1), CookieAt(1)>>}

\* C9: the outcome for a message of three field lines and further lines is
\* the outcome for the same three lines followed by any other lines, or by
\* none.
C9_OnlyFirstThreeLines ==
    (Parsed /\ input.n = 3) =>
        \A extra \in ExtraChoices :
            parse_instant_message(Message(input.u, input.p, input.c, 3,
                                          input.layout, extra)) = output

\* A valid message followed by a valid-looking and an invalid line, parsed.
C9_Witness ==
    /\ pc = "done"
    /\ input.n = 3
    /\ input.layout = "blank"
    /\ Len(input.u) = 2
    /\ output.ok


\* ------------------------------------------------------------------------
\* Button labels and commands
\* ------------------------------------------------------------------------

\* A label is its text, with one element standing for its emoji.
\* MAIN_MENU_START = "(rocket) Mulai Ulang"
MAIN_MENU_START ==
    <<"<rocket>", " ", "M", "u", "l", "a", "i", " ", "U", "l", "a",
    "n", "g">>

\* MAIN_MENU_CREATE_DOC = "(memo) Buat Dokumen Excel"
MAIN_MENU_CREATE_DOC ==
    <<"<memo>", " ", "B", "u", "a", "t", " ", "D", "o", "k", "u", "m",
    "e", "n", " ", "E", "x", "c", "e", "l">>

\* MAIN_MENU_HELP = "(info) Pusat Bantuan"
MAIN_MENU_HELP ==
    <<"<info>", " ", "P", "u", "s", "a", "t", " ", "B", "a", "n", "t",
    "u", "a", "n">>

\* SUBMENU_MANUAL = "(keyboard) Input Manual"
SUBMENU_MANUAL ==
    <<"<keyboard>", " ", "I", "n", "p", "u", "t", " ", "M", "a", "n",
    "u", "a", "l">>

\* SUBMENU_INSTANT = "(zap) Input Instan"
SUBMENU_INSTANT ==
    <<"<zap>", " ", "I", "n", "p", "u", "t", " ", "I", "n", "s", "t",
    "a", "n">>

\* SUBMENU_BACK = "(back) Kembali"
SUBMENU_BACK ==
    <<"<back>", " ", "K", "e", "m", "b", "a", "l", "i">>

\* SUBMENU_CANCEL = "(cross) Batal"
SUBMENU_CANCEL ==
    <<"<cross>", " ", "B", "a", "t", "a", "l">>

TextStart == <<"S", "t", "a", "r", "t">>

TextBatal == <<"B", "a", "t", "a", "l">>

SlashStart == <<"/", "s", "t", "a", "r", "t">>

SlashHelp == <<"/", "h", "e", "l", "p">>

SlashBuat == <<"/", "b", "u", "a", "t">>

SlashManual == <<"/", "m", "a", "n", "u", "a", "l">>

SlashInstan == <<"/", "i", "n", "s", "t", "a", "n">>

SlashCancel == <<"/", "c", "a", "n", "c", "e", "l">>

CANCEL_INPUT == <<"c", "a", "n", "c", "e", "l", "_", "i", "n", "p", "u", "t">>

XLSX_EXT == <<".", "x", "l", "s", "x">>

ReportName == <<"r", "e", "p", "o", "r", "t">>

\* ------------------------------------------------------------------------
\* Session and access helpers
\* ------------------------------------------------------------------------

\* ADMIN_IDS of the environment, and the user whose updates are followed:
\* current_user_id(update).  The sender is not an administrator.
ADMIN_IDS == {1}

Sender == 2

\* access_expires_at is None, written <<>>, or an instant t, written <<t>>
None == <<>>

\* The record ensure_user_record creates for an unknown user.
NewUserRecord ==
    [whitelisted |-> FALSE, access_expires_at |-> None, created_docs |-> 0]

\* def ensure_user_record(store, user_id): the store with the record
ensure_user_record(st, uid) ==
    IF uid \in DOMAIN st.users THEN st
    ELSE [st EXCEPT !.users = Put(st.users, uid, NewUserRecord)]

\* def user_is_admin(user_id)
user_is_admin(uid) == uid \in ADMIN_IDS

\* def user_is_blocked(store, user_id)
user_is_blocked(st, uid) == uid \in st.blocked

\* def user_has_access(store, user_id), at the instant t
user_has_access(st, uid, t) ==
    IF user_is_admin(uid) THEN TRUE
    ELSE IF user_is_blocked(st, uid) THEN FALSE
    ELSE LET user == ensure_user_record(st, uid).users[uid]
         IN IF ~user.whitelisted THEN FALSE
            ELSE IF user.access_expires_at = None THEN TRUE
            ELSE t <= user.access_expires_at[1]

\* def touch_user(store, user_id)
touch_user(st, uid) == ensure_user_record(st, uid)

\* def is_control_reset_text(text)
is_control_reset_text(text) ==
    text \in {MAIN_MENU_START, SUBMENU_CANCEL, TextStart, TextBatal,
              SlashStart}

\* A message of the bot that is not a rejection, with the numbers it states.
Note(kind, counts) == Rejection(kind, "-", 0, Absent, "-", counts)

\* def guard_access(update, context): whether the handler may go on, the
\* store it saved and the message it sent
guard_access(st, uid, t) ==
    LET touched == touch_user(st, uid)
    IN IF user_is_blocked(touched, uid)
       THEN [ok |-> FALSE, store |-> touched,
             reply |-> <<Note("Blocked", <<>>)>>]
       ELSE IF ~user_has_access(touched, uid, t)
       THEN [ok |-> FALSE, store |-> touched,
             reply |-> <<Note("AccessRestricted", <<>>)>>]
       ELSE [ok |-> TRUE, store |-> touched, reply |-> <<>>]

\* ------------------------------------------------------------------------
\* File name and delivery
\* ------------------------------------------------------------------------

\* FILENAME_REGEX.fullmatch(s)
FILENAME_REGEX_fullmatch(s) ==
    /\ Len(s) >= 1
    /\ Len(s) <= FILENAME_MAX_LEN
    /\ \A i \in 1..Len(s) : s[i] \in FilenameChars

\* def validate_filename_no_ext(raw)
validate_filename_no_ext(raw) ==
    LET s == strip(raw)
    IN IF s = <<>> THEN Accept
       ELSE IF ~FILENAME_REGEX_fullmatch(s)
            THEN Reject(Rejection("InvalidFilename", "filename", 0, Absent,
                                  "-", <<>>))
       ELSE Accept

\* A file name without the extension.
build_filename_bare(raw) == strip(raw)

\* def build_filename(raw); "<timestamp>" stands for %Y%m%d_%H%M%S
build_filename(raw) ==
    LET s == strip(raw)
    IN IF s = <<>>
       THEN <<"f", "a", "c", "e", "b", "o", "o", "k", "_", "a", "c", "c", "o",
              "u", "n", "t", "s", "_", "<timestamp>">> \o XLSX_EXT
       ELSE s \o XLSX_EXT

\* How far send_xlsx_result gets before a call raises: build_xlsx_file,
\* send_message or send_document, or none of them.
SendOutcomes == {"sent", "render_failed", "notice_failed", "document_failed"}

\* send_xlsx_result with the counters written before the document is sent.
send_xlsx_result_counting_first(data, filename, st, uid, outcome) ==
    LET rec == [users |-> Put(st.users, uid,
                              IF uid \in DOMAIN st.users THEN st.users[uid]
                              ELSE [whitelisted |-> FALSE,
                                    access_expires_at |-> <<>>,
                                    created_docs |-> 0]),
                blocked |-> st.blocked, stats |-> st.stats]
        counted ==
            [rec EXCEPT !.users[uid].created_docs = @ + 1,
                        !.stats.total_docs_created = @ + 1]
    IN IF outcome = "sent"
       THEN [reply |-> <<Note("DocumentReady", <<>>)>>,
             delivered |-> <<[filename |-> filename,
                              rows |-> build_xlsx_file(data)]>>,
             store |-> counted]
       ELSE IF outcome = "document_failed"
       THEN [reply |-> <<Note("DocumentReady", <<>>),
                         Note("InternalError", <<>>)>>,
             delivered |-> <<>>, store |-> counted]
       ELSE [reply |-> <<Note("InternalError", <<>>)>>,
             delivered |-> <<>>, store |-> st]

\* send_xlsx_result that counts the document in the statistics only.
send_xlsx_result_total_only(data, filename, st, uid, outcome) ==
    LET rec == ensure_user_record(st, uid)
        counted == [rec EXCEPT !.stats.total_docs_created = @ + 1]
    IN CASE outcome = "sent" ->
              [reply |-> <<Note("DocumentReady", <<>>)>>,
               delivered |-> <<[filename |-> filename,
                                rows |-> build_xlsx_file(data)]>>,
               store |-> counted]
         [] outcome \in {"render_failed", "notice_failed"} ->
              [reply |-> <<Note("InternalError", <<>>)>>,
               delivered |-> <<>>, store |-> st]
         [] outcome = "document_failed" ->
              [reply |-> <<Note("DocumentReady", <<>>),
                           Note("InternalError", <<>>)>>,
               delivered |-> <<>>, store |-> st]

\* def send_xlsx_result(update, context, data, filename)
send_xlsx_result(data, filename, st, uid, outcome) ==
    LET rec == ensure_user_record(st, uid)
        counted ==
            [rec EXCEPT !.users[uid].created_docs = @ + 1,
                        !.stats.total_docs_created = @ + 1]
    IN CASE outcome = "sent" ->
              [reply |-> <<Note("DocumentReady", <<>>)>>,
               delivered |-> <<[filename |-> filename,
                                rows |-> build_xlsx_file(data)]>>,
               store |-> counted]
         [] outcome \in {"render_failed", "notice_failed"} ->
              [reply |-> <<Note("InternalError", <<>>)>>,
               delivered |-> <<>>, store |-> st]
         [] outcome = "document_failed" ->
              [reply |-> <<Note("DocumentReady", <<>>),
                           Note("InternalError", <<>>)>>,
               delivered |-> <<>>, store |-> st]

\* ------------------------------------------------------------------------
\* Handlers: what a handler returns for the text of an update
\*   next: the conversation state it returns; user_data: the dict it leaves;
\*   reply: the messages it sends
\* ------------------------------------------------------------------------

\* def cancel_handler, through force_back_to_main_menu and
\* hard_reset_user_session
cancel_handler ==
    [next |-> END, user_data |-> EmptyDict,
     reply |-> <<Note("SessionCancelled", <<>>)>>]

\* str.split(): the words between runs of whitespace
str_split(raw) ==
    LET starts == {i \in 1..Len(raw) :
                      /\ raw[i] \notin Whitespace
                      /\ (i = 1 \/ raw[i - 1] \in Whitespace)}
    IN [k \in 1..Cardinality(starts) |->
          LET i == CHOOSE j \in starts :
                      Cardinality({h \in starts : h <= j}) = k
          IN SubSeq(raw, i, FirstIn(raw, i, Whitespace) - 1)]

\* ask_uid_handler: not has_delimiter(raw) and len(raw.split()) > 1
missing_delimiter(raw) == ~has_delimiter(raw) /\ Len(str_split(raw)) > 1

\* def ask_uid_handler
ask_uid_handler(text, ud) ==
    LET raw == strip(text)
        uids == split_tokens(raw)
        v == validate_uids(uids)
    IN IF is_control_reset_text(raw) THEN cancel_handler
       ELSE IF missing_delimiter(raw)
       THEN [next |-> "ASK_UID", user_data |-> ud,
             reply |-> <<Rejection("MissingDelimiter", "uid", 0, Absent, "-",
                                   <<>>)>>]
       ELSE IF ~v.ok
       THEN [next |-> "ASK_UID", user_data |-> ud, reply |-> <<v.err>>]
       ELSE [next |-> "ASK_PASSWORD", user_data |-> Put(ud, "uids", uids),
             reply |-> <<Note("UidAccepted", <<Len(uids)>>)>>]

\* A password-step message that states the three counts.
password_count_mismatch_three(uids, passwords) ==
    Rejection("CountMismatch", "-", 0, Absent, "-",
              <<Len(uids), Len(passwords), 0>>)

\* ask_password_handler: the message for len(passwords) != len(uids) states
\* "Total UID" and "Total PASSWORD"
password_count_mismatch(uids, passwords) ==
    Rejection("CountMismatch", "-", 0, Absent, "-",
              <<Len(uids), Len(passwords)>>)

\* A password step that does not compare the counts.
ask_password_handler_uncounted(text, ud) ==
    LET raw == strip(text)
        passwords == split_tokens(raw)
        v == validate_passwords(passwords)
    IN IF is_control_reset_text(raw) THEN cancel_handler
       ELSE IF ~v.ok
       THEN [next |-> "ASK_PASSWORD", user_data |-> ud, reply |-> <<v.err>>]
       ELSE [next |-> "ASK_COOKIE",
             user_data |-> Put(ud, "passwords", passwords),
             reply |-> <<Note("PasswordAccepted", <<>>)>>]

\* def ask_password_handler
ask_password_handler(text, ud) ==
    LET raw == strip(text)
        passwords == split_tokens(raw)
        v == validate_passwords(passwords)
        uids == Get(ud, "uids", <<>>)
    IN IF is_control_reset_text(raw) THEN cancel_handler
       ELSE IF ~v.ok
       THEN [next |-> "ASK_PASSWORD", user_data |-> ud, reply |-> <<v.err>>]
       ELSE IF Len(passwords) # Len(uids)
       THEN [next |-> "ASK_PASSWORD", user_data |-> ud,
             reply |-> <<password_count_mismatch(uids, passwords)>>]
       ELSE [next |-> "ASK_COOKIE",
             user_data |-> Put(ud, "passwords", passwords),
             reply |-> <<Note("PasswordAccepted", <<>>)>>]

\* ask_cookie_handler: the message for uneven counts states no number
cookie_count_mismatch ==
    Rejection("CountMismatch", "-", 0, Absent, "-", <<>>)

\* ask_cookie_handler that takes the text as one cookie
ask_cookie_handler_whole(text, ud) ==
    LET raw == strip(text)
        cookies == IF raw = <<>> THEN <<>> ELSE <<raw>>
        v == validate_cookies(cookies)
        uids == Get(ud, "uids", <<>>)
        passwords == Get(ud, "passwords", <<>>)
    IN IF is_control_reset_text(raw) THEN cancel_handler
       ELSE IF ~v.ok
       THEN [next |-> "ASK_COOKIE", user_data |-> ud, reply |-> <<v.err>>]
       ELSE IF ~(Len(uids) = Len(passwords) /\ Len(passwords) = Len(cookies))
       THEN [next |-> "ASK_COOKIE", user_data |-> ud,
             reply |-> <<cookie_count_mismatch>>]
       ELSE [next |-> "ASK_FILENAME_MANUAL",
             user_data |-> Put(ud, "cookies", cookies),
             reply |-> <<Note("AskFilename", <<>>)>>]

\* def ask_cookie_handler
ask_cookie_handler(text, ud) ==
    LET raw == strip(text)
        cookies == split_tokens(raw)
        v == validate_cookies(cookies)
        uids == Get(ud, "uids", <<>>)
        passwords == Get(ud, "passwords", <<>>)
    IN IF is_control_reset_text(raw) THEN cancel_handler
       ELSE IF ~v.ok
       THEN [next |-> "ASK_COOKIE", user_data |-> ud, reply |-> <<v.err>>]
       ELSE IF ~(Len(uids) = Len(passwords) /\ Len(passwords) = Len(cookies))
       THEN [next |-> "ASK_COOKIE", user_data |-> ud,
             reply |-> <<cookie_count_mismatch>>]
       ELSE [next |-> "ASK_FILENAME_MANUAL",
             user_data |-> Put(ud, "cookies", cookies),
             reply |-> <<Note("AskFilename", <<>>)>>]

\* def ask_instant_payload_handler
ask_instant_payload_handler(text, ud) ==
    LET raw == strip(text)
        r == parse_instant_message(raw)
    IN IF is_control_reset_text(raw) THEN cancel_handler
       ELSE IF ~r.ok \/ r.parsed = <<>>
       THEN [next |-> "ASK_INSTANT_PAYLOAD", user_data |-> ud,
             reply |-> <<r.err>>]
       ELSE [next |-> "ASK_FILENAME_INSTANT",
             user_data |-> Put(ud, "instant_parsed", r.parsed[1]),
             reply |-> <<Note("InstantAccepted", <<>>)>>]

\* What a handler that builds no document adds to its result.
NoDocument(r, st) ==
    [next |-> r.next, user_data |-> r.user_data, reply |-> r.reply,
     built |-> <<>>, delivered |-> <<>>, store |-> st]

\* The end of a file-name handler that returns to its step when the
\* document was not delivered.
render_and_retry(parsed, raw, st, uid, outcome, done) ==
    LET r == send_xlsx_result(parsed, build_filename(raw), st, uid, outcome)
    IN IF r.delivered # <<>>
       THEN [next |-> END, user_data |-> EmptyDict,
             reply |-> <<Note("Progress", <<>>)>> \o r.reply
                       \o <<Note(done, <<>>)>>,
             built |-> <<parsed>>, delivered |-> r.delivered,
             store |-> r.store]
       ELSE [next |-> IF done = "ManualDone" THEN "ASK_FILENAME_MANUAL"
                      ELSE "ASK_FILENAME_INSTANT",
             user_data |-> EmptyDict,
             reply |-> <<Note("Progress", <<>>)>> \o r.reply,
             built |-> <<parsed>>, delivered |-> <<>>, store |-> r.store]

\* The end of both file-name handlers: the progress message,
\* send_xlsx_result, then force_back_to_main_menu.
render_and_finish(parsed, raw, st, uid, outcome, done) ==
    LET r == send_xlsx_result(parsed, build_filename(raw), st, uid, outcome)
    IN [next |-> END, user_data |-> EmptyDict,
        reply |-> <<Note("Progress", <<>>)>> \o r.reply
                  \o <<Note(done, <<>>)>>,
        built |-> <<parsed>>, delivered |-> r.delivered, store |-> r.store]

\* def ask_filename_manual_handler
ask_filename_manual_handler(text, ud, st, uid, outcome) ==
    LET raw == strip(text)
        v == validate_filename_no_ext(raw)
        parsed == ParsedInput(Get(ud, "uids", <<>>),
                              Get(ud, "passwords", <<>>),
                              Get(ud, "cookies", <<>>))
    IN IF is_control_reset_text(raw) THEN NoDocument(cancel_handler, st)
       ELSE IF ~v.ok
       THEN NoDocument([next |-> "ASK_FILENAME_MANUAL", user_data |-> ud,
                        reply |-> <<v.err>>], st)
       ELSE render_and_finish(parsed, raw, st, uid, outcome, "ManualDone")

\* def ask_filename_instant_handler
ask_filename_instant_handler(text, ud, st, uid, outcome) ==
    LET raw == strip(text)
        v == validate_filename_no_ext(raw)
        d == Get(ud, "instant_parsed", EmptyDict)
        parsed == ParsedInput(Get(d, "uids", <<>>),
                              Get(d, "passwords", <<>>),
                              Get(d, "cookies", <<>>))
    IN IF is_control_reset_text(raw) THEN NoDocument(cancel_handler, st)
       ELSE IF ~v.ok
       THEN NoDocument([next |-> "ASK_FILENAME_INSTANT", user_data |-> ud,
                        reply |-> <<v.err>>], st)
       ELSE render_and_finish(parsed, raw, st, uid, outcome, "InstantDone")

\* ------------------------------------------------------------------------
\* The updates a user sends
\* ------------------------------------------------------------------------

Words(toks) == Join(toks, <<" ">>)

\* Field texts: a lone UID without any delimiter, two UIDs, a UID followed
\* by a comma, an invalid UID; passwords and cookies likewise.
UidTexts == {Uid1, Words(<<Uid1, Uid2>>), Uid1 \o <<",">>, UidBad}

PasswordTexts == {PwdAt(1), Words(<<PwdAt(1), PwdAt(2)>>), PwdBad}

CookieTexts == {CookieAt(1), Words(<<CookieAt(1), CookieAt(2)>>),
                CookieShort1}

\* Instant messages: two entries, uneven counts, the example with short
\* cookies, and a message of two lines.
InstantTexts ==
    {LongCookieInput.text,
     Message(<<Uid1, Uid2>>, <<PwdAt(1)>>, <<CookieAt(1)>>, 3, "plain", <<>>),
     ExampleInput.text,
     Message(<<Uid1>>, <<PwdAt(1)>>, <<>>, 2, "plain", <<>>)}

\* A name of n characters
NameOfLength(n) == [i \in 1..n |-> "a"]

\* A valid file name, one with a space in it, the longest valid name and
\* one that is a character longer, a text of whitespace only, and a word
\* that is a valid name and resets the session.
FilenameTexts ==
    {ReportName, Words(<<Uid1, Uid2>>), NameOfLength(FILENAME_MAX_LEN),
     NameOfLength(FILENAME_MAX_LEN + 1), <<" ">>, TextStart}

\* Buttons of the keyboards and a word that resets a session.
ButtonTexts ==
    {MAIN_MENU_START, MAIN_MENU_CREATE_DOC, MAIN_MENU_HELP, SUBMENU_MANUAL,
     SUBMENU_INSTANT, SUBMENU_BACK, SUBMENU_CANCEL, TextBatal}

\* The texts of filters.TEXT & ~filters.COMMAND updates a user sends while
\* the bot waits for the given field: texts for the field, a text for no
\* field, and any button.  The buttons of the inventory and of the admin
\* panel are not among them: the inventory and admin conversations stay
\* in their initial state.
TextsFor(field) == field \cup {ReportName} \cup ButtonTexts

\* ------------------------------------------------------------------------
\* Handlers outside the conversation states
\* ------------------------------------------------------------------------

\* def start_handler: clears the session and greets; the value it returns
\* reaches no conversation when it runs as a plain handler
start_handler ==
    [next |-> END, user_data |-> EmptyDict,
     reply |-> <<Note("Welcome", <<>>)>>]

\* def help_handler
help_handler(ud) ==
    [next |-> END, user_data |-> ud, reply |-> <<Note("Help", <<>>)>>]

\* def cancel_callback
cancel_callback ==
    [next |-> END, user_data |-> EmptyDict,
     reply |-> <<Note("InputCancelled", <<>>),
                 Note("BackToMainMenu", <<>>)>>]

\* What a handler does after guard_access: nothing more when access is
\* refused, else the session is cleared and the prompt is sent.
guarded(ud, st, uid, t, next, prompt) ==
    LET g == guard_access(st, uid, t)
    IN IF ~g.ok
       THEN [next |-> END, user_data |-> ud, reply |-> g.reply,
             store |-> g.store]
       ELSE [next |-> next, user_data |-> EmptyDict,
             reply |-> <<Note(prompt, <<>>)>>, store |-> g.store]

\* def menu_create_doc_handler
menu_create_doc_handler(ud, st, uid, t) ==
    guarded(ud, st, uid, t, END, "CreateDocMenu")

\* def manual_start_handler
manual_start_handler(ud, st, uid, t) ==
    guarded(ud, st, uid, t, "ASK_UID", "AskUid")

\* def instant_start_handler
instant_start_handler(ud, st, uid, t) ==
    guarded(ud, st, uid, t, "ASK_INSTANT_PAYLOAD", "AskInstantPayload")

\* A handler result that leaves the store as it is.
StoreKept(r, st) ==
    [next |-> r.next, user_data |-> r.user_data, reply |-> r.reply,
     store |-> st]

\* def global_text_router, without its inventory and admin branches
global_text_router(message, ud, st, uid, t) ==
    LET text == strip(message)
    IN IF text \in {MAIN_MENU_START, TextStart, SlashStart, SUBMENU_CANCEL,
                    TextBatal}
       THEN StoreKept(start_handler, st)
       ELSE IF text = MAIN_MENU_CREATE_DOC
       THEN menu_create_doc_handler(ud, st, uid, t)
       ELSE IF text = MAIN_MENU_HELP THEN StoreKept(help_handler(ud), st)
       ELSE IF text = SUBMENU_BACK
       THEN [next |-> END, user_data |-> ud,
             reply |-> <<Note("BackToMainMenu", <<>>)>>, store |-> st]
       ELSE IF text = SUBMENU_MANUAL
       THEN manual_start_handler(ud, st, uid, t)
       ELSE IF text = SUBMENU_INSTANT
       THEN instant_start_handler(ud, st, uid, t)
       ELSE [next |-> END, user_data |-> ud,
             reply |-> <<Note("UnknownText", <<>>)>>, store |-> st]

\* ------------------------------------------------------------------------
\* Dispatch: build_application registers, in this order, the inventory
\* handlers, /start, /help, /buat, manual_conv, instant_conv, admin_conv
\* and global_text_router, all in one group, so an update goes to the
\* first of them that accepts it and to no other.  A conversation accepts
\* an update that matches one of its entry points, else, when it is in a
\* state, one that matches a handler of the state or a fallback.
\* ------------------------------------------------------------------------

\* manual_conv accepts a text that is its entry button, and every text
\* while it is in a state.
ManualConvTakes(text) == text = SUBMENU_MANUAL \/ manual_state # END

InstantConvTakes(text) ==
    /\ ~ManualConvTakes(text)
    /\ (text = SUBMENU_INSTANT \/ instant_state # END)

Dispatched(kind, text, handler) ==
    update' = [kind |-> kind, text |-> text, handler |-> handler,
               sender |-> Sender]

\* bot_data.json as earlier runs may have left it for the sender: absent,
\* whitelisted without a limit or until instant 1, or whitelisted and
\* blocked.
StoreOf(exp) ==
    [EmptyStore EXCEPT !.users =
        Put(EmptyDict, Sender,
            [whitelisted |-> TRUE, access_expires_at |-> exp,
             created_docs |-> 0])]

Init ==
    /\ FunIdle
    /\ BotIdle
    /\ store \in {EmptyStore, StoreOf(None), StoreOf(<<1>>),
                  [StoreOf(None) EXCEPT !.blocked = {Sender}]}

\* ------------------------------------------------------------------------
\* Actions: one per route of an update to a handler
\* ------------------------------------------------------------------------

\* The clock advances.
Tick ==
    /\ now < MaxNow
    /\ now' = now + 1
    /\ UNCHANGED <<update, manual_state, instant_state, user_data, reply,
                   built, delivered, store>>
    /\ UNCHANGED <<fun_vars, side_vars>>

\* /start goes to the CommandHandler registered before the conversations:
\* the conversations do not see it and keep their states.
StartCommand ==
    /\ Dispatched("command", SlashStart, "start_handler")
    /\ user_data' = start_handler.user_data
    /\ reply' = start_handler.reply
    /\ built' = <<>>
    /\ delivered' = <<>>
    /\ UNCHANGED <<manual_state, instant_state, store, now>>
    /\ UNCHANGED <<fun_vars, side_vars>>

\* /help
HelpCommand ==
    /\ Dispatched("command", SlashHelp, "help_handler")
    /\ reply' = help_handler(user_data).reply
    /\ built' = <<>>
    /\ delivered' = <<>>
    /\ UNCHANGED <<manual_state, instant_state, user_data, store, now>>
    /\ UNCHANGED <<fun_vars, side_vars>>

\* /buat, likewise outside the conversations
BuatCommand ==
    LET r == menu_create_doc_handler(user_data, store, Sender, now)
    IN /\ Dispatched("command", SlashBuat, "menu_create_doc_handler")
       /\ user_data' = r.user_data
       /\ reply' = r.reply
       /\ store' = r.store
       /\ built' = <<>>
       /\ delivered' = <<>>
       /\ UNCHANGED <<manual_state, instant_state, now>>
       /\ UNCHANGED <<fun_vars, side_vars>>

\* /manual or the button: an entry point of manual_conv, in any state
\* (allow_reentry)
ManualStart ==
    \E u \in {<<"command", SlashManual>>, <<"text", SUBMENU_MANUAL>>} :
        LET r == manual_start_handler(user_data, store, Sender, now)
        IN /\ Dispatched(u[1], u[2], "manual_start_handler")
           /\ manual_state' = r.next
           /\ user_data' = r.user_data
           /\ reply' = r.reply
           /\ store' = r.store
           /\ built' = <<>>
           /\ delivered' = <<>>
           /\ UNCHANGED <<instant_state, now>>
           /\ UNCHANGED <<fun_vars, side_vars>>

\* /instan, which manual_conv never accepts, or the button, which
\* manual_conv takes as a text while it is in a state
InstantStart ==
    \E u \in {<<"command", SlashInstan>>, <<"text", SUBMENU_INSTANT>>} :
        LET r == instant_start_handler(user_data, store, Sender, now)
        IN /\ u[1] = "text" => ~ManualConvTakes(u[2])
           /\ Dispatched(u[1], u[2], "instant_start_handler")
           /\ instant_state' = r.next
           /\ user_data' = r.user_data
           /\ reply' = r.reply
           /\ store' = r.store
           /\ built' = <<>>
           /\ delivered' = <<>>
           /\ UNCHANGED <<manual_state, now>>
           /\ UNCHANGED <<fun_vars, side_vars>>

\* A fallback of the first conversation that is in a state ends that
\* conversation and clears the session.
Fallback(kind, text, handler, r) ==
    /\ manual_state # END \/ instant_state # END
    /\ Dispatched(kind, text, handler)
    /\ IF manual_state # END
       THEN manual_state' = r.next /\ UNCHANGED instant_state
       ELSE instant_state' = r.next /\ UNCHANGED manual_state
    /\ user_data' = r.user_data
    /\ reply' = r.reply
    /\ built' = <<>>
    /\ delivered' = <<>>
    /\ UNCHANGED <<store, now>>
    /\ UNCHANGED <<fun_vars, side_vars>>

\* /cancel
CancelCommand ==
    Fallback("command", SlashCancel, "cancel_handler", cancel_handler)

\* The inline button, callback data cancel_input
CancelCallback ==
    Fallback("callback", CANCEL_INPUT, "cancel_callback", cancel_callback)

\* A text while manual_conv is in a state: the handler of the state
ManualText(state, handler, r) ==
    /\ manual_state = state
    /\ manual_state' = r.next
    /\ user_data' = r.user_data
    /\ reply' = r.reply
    /\ built' = <<>>
    /\ delivered' = <<>>
    /\ UNCHANGED <<instant_state, store, now>>
    /\ UNCHANGED <<fun_vars, side_vars>>

AskUid ==
    \E text \in TextsFor(UidTexts) \ {SUBMENU_MANUAL} :
        /\ Dispatched("text", text, "ask_uid_handler")
        /\ ManualText("ASK_UID", "ask_uid_handler",
                      ask_uid_handler(text, user_data))

AskPassword ==
    \E text \in TextsFor(PasswordTexts) \ {SUBMENU_MANUAL} :
        /\ Dispatched("text", text, "ask_password_handler")
        /\ ManualText("ASK_PASSWORD", "ask_password_handler",
                      ask_password_handler(text, user_data))

AskCookie ==
    \E text \in TextsFor(CookieTexts) \ {SUBMENU_MANUAL} :
        /\ Dispatched("text", text, "ask_cookie_handler")
        /\ ManualText("ASK_COOKIE", "ask_cookie_handler",
                      ask_cookie_handler(text, user_data))

AskFilenameManual ==
    \E text \in TextsFor(FilenameTexts) \ {SUBMENU_MANUAL},
       outcome \in SendOutcomes :
        /\ manual_state = "ASK_FILENAME_MANUAL"
        /\ store.stats.total_docs_created < MaxDocs
        /\ \E r \in {ask_filename_manual_handler(text, user_data, store,
                                                 Sender, outcome)} :
           /\ Dispatched("text", text, "ask_filename_manual_handler")
           /\ manual_state' = r.next
           /\ user_data' = r.user_data
           /\ reply' = r.reply
           /\ built' = r.built
           /\ delivered' = r.delivered
           /\ store' = r.store
           /\ UNCHANGED <<instant_state, now>>
           /\ UNCHANGED <<fun_vars, side_vars>>

\* A text while instant_conv is in a state and manual_conv is in none
AskInstantPayload ==
    \E text \in TextsFor(InstantTexts) :
        LET r == ask_instant_payload_handler(text, user_data)
        IN /\ instant_state = "ASK_INSTANT_PAYLOAD"
           /\ InstantConvTakes(text)
           /\ text # SUBMENU_INSTANT
           /\ Dispatched("text", text, "ask_instant_payload_handler")
           /\ instant_state' = r.next
           /\ user_data' = r.user_data
           /\ reply' = r.reply
           /\ built' = <<>>
           /\ delivered' = <<>>
           /\ UNCHANGED <<manual_state, store, now>>
           /\ UNCHANGED <<fun_vars, side_vars>>

AskFilenameInstant ==
    \E text \in TextsFor(FilenameTexts), outcome \in SendOutcomes :
        /\ instant_state = "ASK_FILENAME_INSTANT"
        /\ InstantConvTakes(text)
        /\ text # SUBMENU_INSTANT
        /\ store.stats.total_docs_created < MaxDocs
        /\ \E r \in {ask_filename_instant_handler(text, user_data, store,
                                                  Sender, outcome)} :
           /\ Dispatched("text", text, "ask_filename_instant_handler")
           /\ instant_state' = r.next
           /\ user_data' = r.user_data
           /\ reply' = r.reply
           /\ built' = r.built
           /\ delivered' = r.delivered
           /\ store' = r.store
           /\ UNCHANGED <<manual_state, now>>
           /\ UNCHANGED <<fun_vars, side_vars>>

\* A text that no conversation accepts
GlobalTextRouter ==
    \E text \in TextsFor({}) :
        LET r == global_text_router(text, user_data, store, Sender, now)
        IN /\ ~ManualConvTakes(text)
           /\ ~InstantConvTakes(text)
           /\ Dispatched("text", text, "global_text_router")
           /\ user_data' = r.user_data
           /\ reply' = r.reply
           /\ store' = r.store
           /\ built' = <<>>
           /\ delivered' = <<>>
           /\ UNCHANGED <<manual_state, instant_state, now>>
           /\ UNCHANGED <<fun_vars, side_vars>>

Next ==
    \/ Tick
    \/ StartCommand
    \/ HelpCommand
    \/ BuatCommand
    \/ ManualStart
    \/ InstantStart
    \/ CancelCommand
    \/ CancelCallback
    \/ AskUid
    \/ AskPassword
    \/ AskCookie
    \/ AskFilenameManual
    \/ AskInstantPayload
    \/ AskFilenameInstant
    \/ GlobalTextRouter

Spec == Init /\ [][Next]_vars

\* ------------------------------------------------------------------------
\* Claims about the conversations
\* ------------------------------------------------------------------------

\* C1: every triple a file-name handler passes to build_xlsx_file has three
\* lists of one length N >= 1, and no document of the header row alone is
\* sent, whatever updates came before.
C1_TripleEqualNonEmpty ==
    /\ \A i \in 1..Len(built) :
          /\ Len(built[i].uids) = Len(built[i].passwords)
          /\ Len(built[i].passwords) = Len(built[i].cookies)
          /\ Len(built[i].uids) >= 1
    /\ \A i \in 1..Len(delivered) : Len(delivered[i].rows) >= 2


\* The last update was a text for the UID step that has no comma and no
\* whitespace and is not a word that resets the session.
LoneTokenAtUidStep ==
    /\ update.handler = "ask_uid_handler"
    /\ strip(update.text) # <<>>
    /\ ~has_delimiter(strip(update.text))
    /\ ~is_control_reset_text(strip(update.text))

\* C2: a UID submission without comma or whitespace is rejected with the
\* MissingDelimiter reason, the conversation stays in the UID step and no
\* UIDs are stored.
C2_LoneTokenRejected ==
    LoneTokenAtUidStep =>
        /\ reply = <<Rejection("MissingDelimiter", "uid", 0, Absent, "-",
                               <<>>)>>
        /\ manual_state = "ASK_UID"
        /\ "uids" \notin DOMAIN user_data

\* The last update was a text of valid tokens for the given step of the
\* manual conversation.
ValidTokensAt(handler, validate(_)) ==
    /\ update.handler = handler
    /\ ~is_control_reset_text(strip(update.text))
    /\ validate(split_tokens(strip(update.text))).ok

StoredUids == Get(user_data, "uids", <<>>)

StoredPasswords == Get(user_data, "passwords", <<>>)

Submitted == split_tokens(strip(update.text))

CookieStepMismatch ==
    /\ update.handler = "ask_cookie_handler"
    /\ update.text = CookieAt(1)
    /\ StoredUids = <<Uid1, Uid2>>
    /\ Len(StoredPasswords) = 2
    /\ manual_state = "ASK_COOKIE"
    /\ reply = <<cookie_count_mismatch>>

\* ------------------------------------------------------------------------
\* The field validators on generated arguments
\* ------------------------------------------------------------------------

\* A run of n digits: "123456789123..."
DigitRun(n) == [i \in 1..n |-> DigitAt[((i - 1) % 9) + 1]]

\* Characters that are not ASCII digits; "<arabic-digit>" stands for a
\* digit of another script.
ForeignChars == {"a", "-", " ", "\n", "<arabic-digit>"}

\* A run of n digits, as it is (at = 0), with the character at position
\* at replaced by ch (1 <= at <= n), or with ch appended (at = n + 1).
UidOf(n, at, ch) ==
    IF at = 0 THEN DigitRun(n)
    ELSE IF at = n + 1 THEN Append(DigitRun(n), ch)
    ELSE [DigitRun(n) EXCEPT ![at] = ch]

\* A drawn argument: the function it is for, how it was generated
\* (gen), and what the generator knows about it.
Drawn(fn, arg, gen, n, at, breaks) ==
    [fn |-> fn, arg |-> arg, gen |-> gen, n |-> n, at |-> at,
     breaks |-> breaks]

UidDraw(n, at, ch) ==
    Drawn("validate_uids", <<UidOf(n, at, ch)>>, "string", n, at, {})

UidDraws ==
    {UidDraw(n, 0, "-") : n \in 0..MaxDigits}
    \cup UNION {{UidDraw(n, at, ch) : at \in {1, n, n + 1} \ {0},
                                      ch \in ForeignChars} :
                   n \in 0..MaxDigits}

\* "1234567": seven digits
UidSeven == <<"1", "2", "3", "4", "5", "6", "7">>

\* "ab cd ef": eight characters, two of them spaces
PwdSpaced == <<"a", "b", " ", "c", "d", " ", "e", "f">>

\* "c_user=1xs=2": 12 characters, both names, no separator
CookieNoSeparator ==
    <<"c", "_", "u", "s", "e", "r", "=", "1", "x", "s", "=", "2">>

\* "c_user=12345678xs=12345": 23 characters, both names, no separator
CookieLongNoSeparator ==
    <<"c", "_", "u", "s", "e", "r", "=", "1", "2", "3", "4", "5", "6",
    "7", "8", "x", "s", "=", "1", "2", "3", "4", "5">>

\* "abc"
CookieWord == <<"a", "b", "c">>

\* "session=123456789012345": 23 characters, well formed, neither name
CookieOtherNames ==
    <<"s", "e", "s", "s", "i", "o", "n", "=", "1", "2", "3", "4", "5",
    "6", "7", "8", "9", "0", "1", "2", "3", "4", "5">>

\* 24 times "a": neither name, no key=value pair
CookiePlainRun ==
    <<"a", "a", "a", "a", "a", "a", "a", "a", "a", "a", "a", "a", "a",
    "a", "a", "a", "a", "a", "a", "a", "a", "a", "a", "a">>

\* "c_user=12345678;ab=12345": well formed, no xs=
CookieOnlyCUser ==
    <<"c", "_", "u", "s", "e", "r", "=", "1", "2", "3", "4", "5", "6",
    "7", "8", ";", "a", "b", "=", "1", "2", "3", "4", "5">>

\* "xs=1234567890;ab=1234567": well formed, no c_user=
CookieOnlyXs ==
    <<"x", "s", "=", "1", "2", "3", "4", "5", "6", "7", "8", "9", "0",
    ";", "a", "b", "=", "1", "2", "3", "4", "5", "6", "7">>

\* "c_user=12345678==========": no xs=, not well formed
CookieOnlyCUserBroken ==
    <<"c", "_", "u", "s", "e", "r", "=", "1", "2", "3", "4", "5", "6",
    "7", "8", "=", "=", "=", "=", "=", "=", "=", "=", "=", "=">>

\* The tokens of the drawn lists: two valid and two invalid ones per field
UidPool == GoodUids \cup {UidBad, UidSeven}

PasswordPool == {PwdAt(1), PwdAt(2), PwdBad, PwdSpaced}

CookiePool == {CookieAt(1), CookieAt(2), CookieShort1, CookieLongNoSeparator}

ListDraw(fn, list) == Drawn(fn, list, "list", 0, 0, {})

ListDraws ==
    {ListDraw("validate_uids", l) : l \in SeqUpTo(UidPool, MaxList)}
    \cup {ListDraw("validate_passwords", l) :
             l \in SeqUpTo(PasswordPool, MaxList)}
    \cup {ListDraw("validate_cookies", l) :
             l \in SeqUpTo(CookiePool, MaxList)}

\* Single cookies, each with the rules it breaks: blank (nothing is left
\* after trimming), short (fewer than 20 characters), unnamed (c_user= or
\* xs= is missing), malformed (not key=value pairs separated by ";").
CookieDraw(text, breaks) ==
    Drawn("validate_cookie", text, "cookie", 0, 0, breaks)

AllRules == {"blank", "short", "unnamed", "malformed"}

CookieDraws ==
    {CookieDraw(<<>>, AllRules),
     CookieDraw(<<" ", "\t">>, AllRules),
     CookieDraw(CookieWord, {"short", "unnamed", "malformed"}),
     CookieDraw(CookieShort1, {"short"}),
     CookieDraw(CookieNoSeparator, {"short", "malformed"}),
     CookieDraw(CookieOtherNames, {"unnamed"}),
     CookieDraw(CookiePlainRun, {"unnamed", "malformed"}),
     CookieDraw(CookieOnlyCUser, {"unnamed"}),
     CookieDraw(CookieOnlyXs, {"unnamed"}),
     CookieDraw(CookieOnlyCUserBroken, {"unnamed", "malformed"}),
     CookieDraw(CookieLongNoSeparator, {"malformed"}),
     CookieDraw(CookieAt(1), {}),
     CookieDraw(CookieAt(2), {}),
     CookieDraw(<<" ">> \o CookieAt(1) \o <<"\n">>, {})}

InitValid ==
    /\ input \in UidDraws \cup ListDraws \cup CookieDraws
    /\ output = <<>>
    /\ doc = <<>>
    /\ pc = "drawn"
    /\ BotIdle
    /\ store = EmptyStore

ApplyValidator(fn, result) ==
    /\ pc = "drawn"
    /\ input.fn = fn
    /\ output' = result
    /\ pc' = "done"
    /\ UNCHANGED <<input, doc>>
    /\ UNCHANGED bot_vars

ApplyValidateUids == ApplyValidator("validate_uids", validate_uids(input.arg))

ApplyValidatePasswords ==
    ApplyValidator("validate_passwords", validate_passwords(input.arg))

ApplyValidateCookies ==
    ApplyValidator("validate_cookies", validate_cookies(input.arg))

ApplyValidateCookie ==
    ApplyValidator("validate_cookie", validate_cookie(input.arg))

NextValid ==
    \/ ApplyValidateUids
    \/ ApplyValidatePasswords
    \/ ApplyValidateCookies
    \/ ApplyValidateCookie

SpecValid == InitValid /\ [][NextValid]_vars

Validated(fn) == pc = "done" /\ input.fn = fn

\* C11: validate_uids([s]) succeeds if and only if s is 8 to 20 ASCII
\* digits and nothing else.
C11_UidIffEightToTwentyDigits ==
    (Validated("validate_uids") /\ input.gen = "string")
        => (output.ok <=> (input.at = 0 /\ input.n >= 8 /\ input.n <= 20))

\* Twenty digits accepted.
C11_Witness ==
    /\ Validated("validate_uids")
    /\ input.arg = <<DigitRun(20)>>
    /\ output.ok


\* The validator a list was drawn for, its field, and its valid tokens
Validate(fn, list) ==
    CASE fn = "validate_uids" -> validate_uids(list)
      [] fn = "validate_passwords" -> validate_passwords(list)
      [] fn = "validate_cookies" -> validate_cookies(list)

FieldOf(fn) ==
    CASE fn = "validate_uids" -> "uid"
      [] fn = "validate_passwords" -> "password"
      [] fn = "validate_cookies" -> "cookie"

GoodOf(fn) ==
    CASE fn = "validate_uids" -> GoodUids
      [] fn = "validate_passwords" -> GoodPasswords
      [] fn = "validate_cookies" -> GoodCookies

ListValidated == pc = "done" /\ input.gen = "list"

InvalidAt(fn, list) == {i \in 1..Len(list) : list[i] \notin GoodOf(fn)}

\* C12: each field validator fails with EmptyField on an empty list;
\* when an element is invalid it reports the smallest index of an invalid
\* element, and the elements after that one do not change the result; the
\* UID line "abc" fails at index 1.
C12_FirstInvalidIndex ==
    ListValidated =>
        LET list == input.arg
            bad == InvalidAt(input.fn, list)
        IN /\ list = <<>> =>
                /\ ~output.ok
                /\ output.err.kind = "EmptyField"
                /\ output.err.field = FieldOf(input.fn)
           /\ (list # <<>> /\ bad = {}) => output.ok
           /\ bad # {} =>
                /\ ~output.ok
                /\ output.err.kind = "InvalidFormat"
                /\ output.err.field = FieldOf(input.fn)
                /\ output.err.index \in bad
                /\ \A j \in bad : output.err.index <= j
                /\ output = Validate(input.fn,
                                     SubSeq(list, 1, output.err.index))
           /\ (input.fn = "validate_uids" /\ list = <<UidBad>>) =>
                /\ output.err.index = 1
                /\ output.err.value = UidBad

\* A valid cookie, a short one and a malformed one: rejected at index 2.
C12_Witness ==
    /\ ListValidated
    /\ input.arg = <<CookieAt(1), CookieShort1, CookieLongNoSeparator>>
    /\ output.err.index = 2
    /\ output.err.reason = "min_length"


InvalidFormatReported ==
    ListValidated /\ ~output.ok /\ output.err.kind = "InvalidFormat"

\* C13 as stated: every InvalidFormat rejection, of a UID, a password or a
\* cookie, carries the field name, the index of the offending element and
\* the offending value.
C13_RejectionCarriesValue ==
    InvalidFormatReported =>
        /\ output.err.field = FieldOf(input.fn)
        /\ output.err.index \in 1..Len(input.arg)
        /\ output.err.value = input.arg[output.err.index]

\* C13, amended: every InvalidFormat rejection carries the field name and
\* the index of the offending element; the offending value is quoted for a
\* UID only.  The message for a password quotes nothing else, the message
\* for a cookie quotes the reason validate_cookie gave and not the cookie.
C13_RejectionCarriesIndex ==
    InvalidFormatReported =>
        LET e == output.err
        IN /\ e.field = FieldOf(input.fn)
           /\ e.index \in 1..Len(input.arg)
           /\ input.fn = "validate_uids" =>
                (e.value = input.arg[e.index] /\ e.reason = "-")
           /\ input.fn = "validate_passwords" =>
                (e.value = Absent /\ e.reason = "-")
           /\ input.fn = "validate_cookies" =>
                /\ e.value = Absent
                /\ e.reason \in {"empty", "min_length", "required_substring",
                                 "format"}
                /\ e.reason = validate_cookie(input.arg[e.index]).reason

\* A valid password followed by one with spaces: the message names index 2
\* and no value.
C13_Witness ==
    /\ InvalidFormatReported
    /\ input.arg = <<PwdAt(1), PwdSpaced>>
    /\ output.err.index = 2
    /\ output.err.value = Absent


\* The reason validate_cookie words for each rule, in the order claimed
RuleOrder == <<"blank", "short", "unnamed", "malformed">>

ReasonFor(rule) ==
    CASE rule = "blank" -> "empty"
      [] rule = "short" -> "min_length"
      [] rule = "unnamed" -> "required_substring"
      [] rule = "malformed" -> "format"

\* C14: validate_cookie applies its rules in the order non-empty after
\* trimming, at least 20 characters, both c_user= and xs=, key=value
\* grammar; the reason reported is that of the first rule broken, and a
\* cookie is accepted only when it breaks none.
C14_FirstBrokenRule ==
    Validated("validate_cookie") =>
        /\ output.ok <=> input.breaks = {}
        /\ input.breaks = {} => output.reason = "-"
        /\ \A k \in 1..Len(RuleOrder) :
              (/\ RuleOrder[k] \in input.breaks
               /\ \A j \in 1..(k - 1) : RuleOrder[j] \notin input.breaks)
              => output.reason = ReasonFor(RuleOrder[k])

\* A long cookie with neither name and no key=value pair: the names are
\* asked for first.
C14_Witness ==
    /\ Validated("validate_cookie")
    /\ input.arg = CookiePlainRun
    /\ input.breaks = {"unnamed", "malformed"}
    /\ output.reason = "required_substring"

\* C15 as stated: "c_user=1xs=2" is rejected for its format, the key=value
\* grammar, and for no other rule.
C15_NoSeparatorRejectedForFormat ==
    (Validated("validate_cookie") /\ input.arg = CookieNoSeparator)
        => (~output.ok /\ output.reason = "format")

\* C15, amended: "c_user=1xs=2" is rejected for its length, 12 characters
\* being fewer than 20; the same shape with 20 characters or more,
\* "c_user=12345678xs=12345", is rejected for its format.
C15_NoSeparatorRejectedForLength ==
    Validated("validate_cookie") =>
        /\ input.arg = CookieNoSeparator =>
              (~output.ok /\ output.reason = "min_length")
        /\ input.arg = CookieLongNoSeparator =>
              (~output.ok /\ output.reason = "format")

C15_Witness ==
    /\ Validated("validate_cookie")
    /\ input.arg = CookieNoSeparator
    /\ ~output.ok
    /\ output.reason = "min_length"


\* C16: rendering a triple of N entries gives N + 1 rows of 3 columns:
\* the header row, then for each index the UID, the password and the
\* cookie at that index, in the order of the triple, repetitions kept.
C16_RowPerEntryInOrder ==
    pc = "rendered" =>
        LET N == Len(input.u)
        IN /\ Len(input.p) = N
           /\ Len(input.c) = N
           /\ Len(doc) = N + 1
           /\ doc[1] = <<"UID", "PASSWORD", "COOKIE">>
           /\ \A i \in 2..(N + 1) :
                 /\ Len(doc[i]) = 3
                 /\ doc[i] = <<input.u[i - 1], input.p[i - 1],
                               input.c[i - 1]>>

\* Two entries whose UIDs are in descending order, rendered in that order.
C16_Witness ==
    /\ pc = "rendered"
    /\ input.u = <<Uid2, Uid1>>
    /\ Len(doc) = 3
    /\ doc[2][1] = Uid2
    /\ doc[3][1] = Uid1

\* The same UID twice, rendered as two rows.
RenderedRepetition ==
    /\ pc = "rendered"
    /\ input.u = <<Uid1, Uid1>>
    /\ Len(doc) = 3


\* ------------------------------------------------------------------------
\* Claims about cancelling, restarting and the steps of the conversations
\* ------------------------------------------------------------------------

\* The last update was a cancel input: the inline button, /cancel, or the
\* text of the cancel button or the word "Batal".
CancelInput ==
    \/ update.kind = "callback"
    \/ update.kind = "command" /\ update.text = SlashCancel
    \/ update.kind = "text" /\ strip(update.text) \in {SUBMENU_CANCEL,
                                                       TextBatal}

\* C17: from every state of the manual and of the instant conversation a
\* cancel input ends the conversation and leaves user_data empty.
C17_CancelEndsConversation ==
    CancelInput =>
        /\ manual_state = END
        /\ instant_state = END
        /\ user_data = EmptyDict

\* The last update was a restart: /start or the restart button.
RestartInput ==
    \/ update.kind = "command" /\ update.text = SlashStart
    \/ update.kind = "text" /\ strip(update.text) = MAIN_MENU_START

\* C18: after a restart user_data is empty and neither conversation is in
\* a state, so that the next text is not taken as a field of an old flow.
C18_RestartEndsConversations ==
    RestartInput =>
        /\ user_data = EmptyDict
        /\ manual_state = END
        /\ instant_state = END


\* A step of the handler of a field: the update goes to it (Tick is the
\* only action that keeps the update, and it changes the clock).
FieldStep(handler) == now' = now /\ update'.handler = handler

\* The tokens of the text the step handles
Tokens == {split_tokens(strip(update'.text))}

\* Whether the text resets the session
Resets == is_control_reset_text(strip(update'.text))

\* What follows a step of the manual conversation: on an accepted field
\* the next state and the field stored; on a word that resets, the end;
\* on a rejection, nothing changed and no document.
FieldOutcome(accepted, toks, key, next) ==
    IF Resets THEN manual_state' = END /\ delivered' = <<>>
    ELSE IF accepted
    THEN /\ manual_state' = next
         /\ user_data' = Put(user_data, key, toks)
         /\ delivered' = <<>>
    ELSE /\ manual_state' = manual_state
         /\ user_data' = user_data
         /\ built' = <<>>
         /\ delivered' = <<>>

\* C19: the manual conversation advances by one step, and only when the
\* field validates and its count equals that of the fields accepted
\* before; on a rejection the state and the fields in user_data are
\* unchanged and no document is sent.
C19_AdvanceOnlyOnAcceptedField ==
    [][/\ manual_state' # manual_state =>
            /\ manual_state' = "ASK_PASSWORD" => FieldStep("ask_uid_handler")
            /\ manual_state' = "ASK_COOKIE" =>
                    FieldStep("ask_password_handler")
            /\ manual_state' = "ASK_FILENAME_MANUAL" =>
                    FieldStep("ask_cookie_handler")
       /\ FieldStep("ask_uid_handler") =>
            /\ manual_state = "ASK_UID"
            /\ \A toks \in Tokens :
                FieldOutcome(validate_uids(toks).ok, toks, "uids",
                             "ASK_PASSWORD")
       /\ FieldStep("ask_password_handler") =>
            /\ manual_state = "ASK_PASSWORD"
            /\ \A toks \in Tokens :
                FieldOutcome(/\ validate_passwords(toks).ok
                             /\ Len(toks) = Len(StoredUids),
                             toks, "passwords", "ASK_COOKIE")
       /\ FieldStep("ask_cookie_handler") =>
            /\ manual_state = "ASK_COOKIE"
            /\ \A toks \in Tokens :
                FieldOutcome(/\ validate_cookies(toks).ok
                             /\ Len(toks) = Len(StoredUids)
                             /\ Len(toks) = Len(StoredPasswords),
                             toks, "cookies", "ASK_FILENAME_MANUAL")]_vars

\* The third field accepted: two UIDs, two passwords and two cookies are
\* stored and the file name is awaited.
C19_Witness ==
    /\ update.handler = "ask_cookie_handler"
    /\ manual_state = "ASK_FILENAME_MANUAL"
    /\ StoredUids = <<Uid1, Uid2>>
    /\ StoredPasswords = <<PwdAt(1), PwdAt(2)>>
    /\ Get(user_data, "cookies", <<>>) = <<CookieAt(1), CookieAt(2)>>

\* A rejected password after an accepted UID field: the UIDs are kept.
RejectedPasswordKeepsUids ==
    /\ update.handler = "ask_password_handler"
    /\ update.text = PwdBad
    /\ manual_state = "ASK_PASSWORD"
    /\ StoredUids = <<Uid1, Uid2>>


\* The state is the one a file-name handler left.
FilenameStep ==
    update.handler \in {"ask_filename_manual_handler",
                        "ask_filename_instant_handler"}

\* The state of the conversation whose file-name handler ran
FilenameState ==
    IF update.handler = "ask_filename_manual_handler"
    THEN manual_state ELSE instant_state

\* The step the file-name handler of the update belongs to
FilenameAsked ==
    IF update.handler = "ask_filename_manual_handler"
    THEN "ASK_FILENAME_MANUAL" ELSE "ASK_FILENAME_INSTANT"

\* 1 to 50 characters, each a letter, a digit, "_" or "-"
PlainName(s) ==
    /\ Len(s) \in 1..50
    /\ \A i \in 1..Len(s) : s[i] \in Digits \cup Lower \cup Upper \cup {"_", "-"}

\* facebook_accounts_<YYYYMMDD_HHMMSS>.xlsx
TimestampName ==
    <<"f", "a", "c", "e", "b", "o", "o", "k", "_", "a", "c", "c", "o", "u",
      "n", "t", "s", "_", "<timestamp>", ".", "x", "l", "s", "x">>

\* A call of the Telegram API raised while the document was being sent.
SendFailed == \E i \in 1..Len(reply) : reply[i].kind = "InternalError"

\* The document was rendered and, unless sending failed, sent once under
\* the name; the conversation ended.
SentAs(name) ==
    /\ Len(built) = 1
    /\ FilenameState = END
    /\ IF SendFailed THEN delivered = <<>>
       ELSE delivered = <<[filename |-> name,
                           rows |-> build_xlsx_file(built[1])]>>

\* Nothing was rendered and nothing was sent.
NothingSent == built = <<>> /\ delivered = <<>>

LongestNameSent ==
    /\ update.handler = "ask_filename_instant_handler"
    /\ Len(update.text) = FILENAME_MAX_LEN
    /\ Len(delivered) = 1
    /\ Len(delivered[1].filename) = FILENAME_MAX_LEN + 5

\* A name one character too long is asked for again.
TooLongNameRejected ==
    /\ update.handler = "ask_filename_manual_handler"
    /\ Len(update.text) = FILENAME_MAX_LEN + 1
    /\ manual_state = "ASK_FILENAME_MANUAL"

\* A text of whitespace only has the document sent under the timestamp.
TimestampNameSent ==
    /\ FilenameStep
    /\ update.text = <<" ">>
    /\ Len(delivered) = 1
    /\ delivered[1].filename = TimestampName

\* A valid name that resets the session: no document.
ResetWordAtFilenameStep ==
    /\ FilenameStep
    /\ update.text = TextStart
    /\ NothingSent


\* A step of one of the two file-name handlers
FilenameHandlerStep ==
    /\ now' = now
    /\ update'.handler \in {"ask_filename_manual_handler",
                            "ask_filename_instant_handler"}

\* created_docs of the user in the store, 0 when there is no record
CreatedDocs(st, uid) ==
    IF uid \in DOMAIN st.users THEN st.users[uid].created_docs ELSE 0

\* The error messages among the messages sent
ErrorMessages(msgs) == {i \in 1..Len(msgs) : msgs[i].kind = "InternalError"}

\* Both counters moved by n.
CountersMoved(n) ==
    /\ CreatedDocs(store', Sender) = CreatedDocs(store, Sender) + n
    /\ store'.stats.total_docs_created = store.stats.total_docs_created + n

FailedAfterDelivery ==
    /\ update.handler = "ask_filename_manual_handler"
    /\ built # <<>>
    /\ delivered = <<>>
    /\ Len(reply) = 4
    /\ store.stats.total_docs_created = 1


C30_AnyTextGetsTimestampName ==
    /\ update.handler = "ask_filename_manual_handler"
    /\ ~is_control_reset_text(strip(update.text))
    /\ ~PlainName(strip(update.text))
    => /\ built # <<>>
       /\ delivered # <<>> => delivered[1].filename = TimestampName


\* C24: a user who is blocked, not whitelisted or whose access has
\* expired at the moment a document would be delivered receives no
\* document from the manual or the instant flow.
C24_NoDocumentWithoutAccess ==
    [][FilenameHandlerStep /\ delivered' # <<>> =>
            user_has_access(store, Sender, now)]_vars


\* ------------------------------------------------------------------------
\* The admin conversation
\* ------------------------------------------------------------------------

\* MAIN_MENU_ADMIN = "(shield) Admin Panel"
MAIN_MENU_ADMIN ==
    <<"<shield>", " ", "A", "d", "m", "i", "n", " ", "P", "a", "n", "e", "l">>

SlashAdmin == <<"/", "a", "d", "m", "i", "n">>

\* ADMIN_MENU_WHITELIST = "(check) Kelola Whitelist"
ADMIN_MENU_WHITELIST ==
    <<"<check>", " ", "K", "e", "l", "o", "l", "a", " ", "W", "h", "i", "t",
      "e", "l", "i", "s", "t">>

\* ADMIN_MENU_DURATION = "(hourglass) Atur Durasi Akses"
ADMIN_MENU_DURATION ==
    <<"<hourglass>", " ", "A", "t", "u", "r", " ", "D", "u", "r", "a", "s",
      "i", " ", "A", "k", "s", "e", "s">>

\* ADMIN_MENU_BLOCK = "(no-entry) Blokir User"
ADMIN_MENU_BLOCK ==
    <<"<no-entry>", " ", "B", "l", "o", "k", "i", "r", " ", "U", "s", "e",
      "r">>

\* ADMIN_MENU_BROADCAST = "(megaphone) Broadcast"
ADMIN_MENU_BROADCAST ==
    <<"<megaphone>", " ", "B", "r", "o", "a", "d", "c", "a", "s", "t">>

\* ADMIN_MENU_STATS = "(chart) Statistik"
ADMIN_MENU_STATS ==
    <<"<chart>", " ", "S", "t", "a", "t", "i", "s", "t", "i", "k">>

\* ADMIN_MENU_EXTRA = "(puzzle) Admin Tambahan"
ADMIN_MENU_EXTRA ==
    <<"<puzzle>", " ", "A", "d", "m", "i", "n", " ", "T", "a", "m", "b", "a",
      "h", "a", "n">>

\* The largest day count admin_duration_input_handler accepts
DURATION_MAX_DAYS == 3650

\* str.lower() on the letters A to Z; other characters are kept
UpperCase ==
    <<"A", "B", "C", "D", "E", "F", "G", "H", "I", "J", "K", "L", "M", "N",
      "O", "P", "Q", "R", "S", "T", "U", "V", "W", "X", "Y", "Z">>

LowerCase ==
    <<"a", "b", "c", "d", "e", "f", "g", "h", "i", "j", "k", "l", "m", "n",
      "o", "p", "q", "r", "s", "t", "u", "v", "w", "x", "y", "z">>

lower(s) ==
    [i \in 1..Len(s) |->
        IF s[i] \in Upper
        THEN LowerCase[CHOOSE k \in 1..26 : UpperCase[k] = s[i]]
        ELSE s[i]]

\* int() of a string of ASCII digits
DigitValue(c) ==
    CHOOSE n \in 0..9 :
        <<"0", "1", "2", "3", "4", "5", "6", "7", "8", "9">>[n + 1] = c

RECURSIVE int(_)
int(s) ==
    IF s = <<>> THEN 0
    ELSE 10 * int(SubSeq(s, 1, Len(s) - 1)) + DigitValue(s[Len(s)])

\* \d+ over the whole of s
IsNumber(s) == s # <<>> /\ \A i \in 1..Len(s) : s[i] \in Digits

\* re.fullmatch(r"(A)\s+(B)", text) where neither A nor B matches
\* whitespace: the two groups, and whether \s+ separates two of them
TwoGroups(text) ==
    LET i == FirstIn(text, 1, Whitespace)
        j == FirstNotIn(text, i, Whitespace)
    IN [ok |-> i > 1 /\ i <= Len(text) /\ j <= Len(text),
        first |-> SubSeq(text, 1, i - 1),
        second |-> SubSeq(text, j, Len(text))]

WordAllow == <<"a", "l", "l", "o", "w">>

WordDeny == <<"d", "e", "n", "y">>

WordBlock == <<"b", "l", "o", "c", "k">>

WordUnblock == <<"u", "n", "b", "l", "o", "c", "k">>

\* re.fullmatch(r"(allow|deny)\s+(\d+)", text, flags=re.IGNORECASE), and
\* the same for (block|unblock)
CommandMatch(text, words) ==
    LET g == TwoGroups(text)
    IN /\ g.ok
       /\ lower(g.first) \in words
       /\ IsNumber(g.second)

\* re.fullmatch(r"(\d+)\s+(\d+)", text)
DurationMatch(text) ==
    LET g == TwoGroups(text)
    IN g.ok /\ IsNumber(g.first) /\ IsNumber(g.second)

\* AdminStates
AdminStates ==
    {"MENU", "WHITELIST_INPUT", "DURATION_INPUT", "BLOCK_INPUT",
     "BROADCAST_INPUT"}

\* admin_entry_handler without the test of user_is_admin
admin_entry_handler_open(uid) ==
    [next |-> "MENU", reply |-> <<Note("AdminPanel", <<>>)>>]

\* def admin_entry_handler
admin_entry_handler(uid) ==
    IF ~user_is_admin(uid)
    THEN [next |-> END, reply |-> <<Note("AdminDenied", <<>>)>>]
    ELSE [next |-> "MENU", reply |-> <<Note("AdminPanel", <<>>)>>]

\* A result of admin_menu_router that keeps the session
AdminMenu(next, kind, ud) ==
    [next |-> next, user_data |-> ud, reply |-> <<Note(kind, <<>>)>>]

\* def admin_menu_router
admin_menu_router(message, ud, st) ==
    LET text == strip(message)
    IN IF text \in {SUBMENU_CANCEL, MAIN_MENU_START} THEN cancel_handler
       ELSE IF text = SUBMENU_BACK
       THEN [next |-> END, user_data |-> EmptyDict,
             reply |-> <<Note("LeftAdminPanel", <<>>)>>]
       ELSE IF text = ADMIN_MENU_WHITELIST
       THEN AdminMenu("WHITELIST_INPUT", "WhitelistMode", ud)
       ELSE IF text = ADMIN_MENU_DURATION
       THEN AdminMenu("DURATION_INPUT", "DurationMode", ud)
       ELSE IF text = ADMIN_MENU_BLOCK
       THEN AdminMenu("BLOCK_INPUT", "BlockMode", ud)
       ELSE IF text = ADMIN_MENU_BROADCAST
       THEN AdminMenu("BROADCAST_INPUT", "BroadcastMode", ud)
       ELSE IF text = ADMIN_MENU_STATS
       THEN [next |-> "MENU", user_data |-> ud,
             reply |-> <<Note("Statistics",
                              <<Cardinality(DOMAIN st.users),
                                Cardinality(st.blocked),
                                st.stats.total_docs_created>>)>>]
       ELSE IF text = ADMIN_MENU_EXTRA THEN AdminMenu("MENU", "AdminExtra", ud)
       ELSE AdminMenu("MENU", "UseAdminMenu", ud)

\* A result of an admin input handler: the state, the store saved and the
\* message
AdminResult(next, st, kind, counts) ==
    [next |-> next, store |-> st, reply |-> <<Note(kind, counts)>>]

\* admin_whitelist_input_handler with deny resetting the record
admin_whitelist_input_handler_resetting(message, st) ==
    LET text == strip(message)
        g == TwoGroups(text)
        target == int(g.second)
        rec == ensure_user_record(st, target)
    IN IF ~CommandMatch(text, {WordAllow, WordDeny})
       THEN AdminResult("WHITELIST_INPUT", st, "WhitelistSyntax", <<>>)
       ELSE IF lower(g.first) = WordAllow
       THEN AdminResult("MENU",
                        [rec EXCEPT !.users[target].whitelisted = TRUE],
                        "WhitelistSaved", <<target>>)
       ELSE AdminResult("MENU",
                        [rec EXCEPT !.users[target].whitelisted = FALSE,
                                    !.users[target].access_expires_at = None],
                        "WhitelistSaved", <<target>>)

\* def admin_whitelist_input_handler
admin_whitelist_input_handler(message, st) ==
    LET text == strip(message)
        g == TwoGroups(text)
        target == int(g.second)
        rec == ensure_user_record(st, target)
    IN IF ~CommandMatch(text, {WordAllow, WordDeny})
       THEN AdminResult("WHITELIST_INPUT", st, "WhitelistSyntax", <<>>)
       ELSE AdminResult("MENU",
                        [rec EXCEPT !.users[target].whitelisted =
                                        (lower(g.first) = WordAllow)],
                        "WhitelistSaved", <<target>>)

\* admin_duration_input_handler with the lower limit tested as days < 0
admin_duration_input_handler_from_zero(message, st, t) ==
    LET text == strip(message)
        g == TwoGroups(text)
        target == int(g.first)
        days == int(g.second)
        rec == ensure_user_record(st, target)
    IN IF ~DurationMatch(text)
       THEN AdminResult("DURATION_INPUT", st, "DurationSyntax", <<>>)
       ELSE IF days < 0 \/ days > DURATION_MAX_DAYS
       THEN AdminResult("DURATION_INPUT", st, "DurationLimit", <<>>)
       ELSE AdminResult("MENU",
                        [rec EXCEPT !.users[target].access_expires_at =
                                        <<t + days>>],
                        "DurationSaved", <<target, t + days>>)

\* def admin_duration_input_handler, at the instant t; an instant is a day
admin_duration_input_handler(message, st, t) ==
    LET text == strip(message)
        g == TwoGroups(text)
        target == int(g.first)
        days == int(g.second)
        rec == ensure_user_record(st, target)
    IN IF ~DurationMatch(text)
       THEN AdminResult("DURATION_INPUT", st, "DurationSyntax", <<>>)
       ELSE IF days <= 0 \/ days > DURATION_MAX_DAYS
       THEN AdminResult("DURATION_INPUT", st, "DurationLimit", <<>>)
       ELSE AdminResult("MENU",
                        [rec EXCEPT !.users[target].access_expires_at =
                                        <<t + days>>],
                        "DurationSaved", <<target, t + days>>)

\* def admin_block_input_handler
admin_block_input_handler(message, st) ==
    LET text == strip(message)
        g == TwoGroups(text)
        target == int(g.second)
    IN IF ~CommandMatch(text, {WordBlock, WordUnblock})
       THEN AdminResult("BLOCK_INPUT", st, "BlockSyntax", <<>>)
       ELSE IF lower(g.first) = WordBlock
       THEN AdminResult("MENU", [st EXCEPT !.blocked = @ \cup {target}],
                        "BlockSaved", <<target>>)
       ELSE AdminResult("MENU", [st EXCEPT !.blocked = @ \ {target}],
                        "BlockSaved", <<target>>)

\* def admin_broadcast_input_handler: one message to every user of the
\* store, then the report; the store keeps its users and its access data
admin_broadcast_input_handler(message, st) ==
    IF strip(message) = <<>>
    THEN AdminResult("BROADCAST_INPUT", st, "BroadcastEmpty", <<>>)
    ELSE AdminResult("MENU", st, "BroadcastDone",
                     <<Cardinality(DOMAIN st.users)>>)


\* The user ids as an administrator types them
SenderId == <<"2">>

AdminId == <<"1">>

\* What an administrator sends in the panel: each button, and a text that
\* is none
AdminMenuTexts ==
    {ADMIN_MENU_WHITELIST, ADMIN_MENU_DURATION, ADMIN_MENU_BLOCK,
     ADMIN_MENU_BROADCAST, ADMIN_MENU_STATS, ADMIN_MENU_EXTRA, SUBMENU_BACK,
     SUBMENU_CANCEL, ReportName}

\* allow and deny for the user, in capitals and after two spaces too, and
\* a command without an id
WhitelistTexts ==
    {Words(<<WordAllow, SenderId>>), Words(<<WordDeny, SenderId>>),
     <<"A", "L", "L", "O", "W", " ", " ">> \o SenderId, WordAllow}

\* Day counts at both limits and beyond them, a count that is no number,
\* and the cancel button
DurationTexts ==
    {Words(<<SenderId, <<"1">>>>), Words(<<SenderId, <<"0">>>>),
     Words(<<SenderId, <<"3", "6", "5", "0">>>>),
     Words(<<SenderId, <<"3", "6", "5", "1">>>>),
     Words(<<SenderId, <<"-", "1">>>>), SUBMENU_CANCEL}

\* block and unblock for the user, block for the administrator, and a
\* command without an id
BlockTexts ==
    {Words(<<WordBlock, SenderId>>), Words(<<WordUnblock, SenderId>>),
     Words(<<WordBlock, AdminId>>), WordBlock}

BroadcastTexts == {ReportName}

\* An update of the user u went to the handler.
DispatchedFrom(u, kind, text, handler) ==
    update' = [kind |-> kind, text |-> text, handler |-> handler,
               sender |-> u]

\* What the handlers of the admin conversation leave alone
AdminFrame ==
    /\ UNCHANGED <<manual_state, instant_state, user_data, built, delivered,
                   now, inv_state, gen_state, INVENTORY_STORE,
                   INVENTORY_META>>
    /\ UNCHANGED fun_vars

\* /admin or the button: the entry point of admin_conv, in any state
AdminEntry ==
    \E u \in Users,
       e \in {<<"command", SlashAdmin>>, <<"text", MAIN_MENU_ADMIN>>} :
        \E r \in {admin_entry_handler(u)} :
            /\ DispatchedFrom(u, e[1], e[2], "admin_entry_handler")
            /\ admin_state' = [admin_state EXCEPT ![u] = r.next]
            /\ reply' = r.reply
            /\ UNCHANGED <<store, users_data>>
            /\ AdminFrame

\* A text while admin_conv is in MENU
AdminMenuRouter ==
    \E u \in Users, text \in AdminMenuTexts :
        \E r \in {admin_menu_router(text, users_data[u], store)} :
            /\ admin_state[u] = "MENU"
            /\ DispatchedFrom(u, "text", text, "admin_menu_router")
            /\ admin_state' = [admin_state EXCEPT ![u] = r.next]
            /\ users_data' = [users_data EXCEPT ![u] = r.user_data]
            /\ reply' = r.reply
            /\ UNCHANGED store
            /\ AdminFrame

\* A step of an input handler of admin_conv
AdminInput(u, text, handler, r) ==
    /\ DispatchedFrom(u, "text", text, handler)
    /\ admin_state' = [admin_state EXCEPT ![u] = r.next]
    /\ store' = r.store
    /\ reply' = r.reply
    /\ UNCHANGED users_data
    /\ AdminFrame

\* A text while admin_conv is in WHITELIST_INPUT
AdminWhitelistInput ==
    \E u \in Users, text \in WhitelistTexts :
        /\ admin_state[u] = "WHITELIST_INPUT"
        /\ \E r \in {admin_whitelist_input_handler(text, store)} :
            AdminInput(u, text, "admin_whitelist_input_handler", r)

\* A text while admin_conv is in DURATION_INPUT
AdminDurationInput ==
    \E u \in Users, text \in DurationTexts :
        /\ admin_state[u] = "DURATION_INPUT"
        /\ \E r \in {admin_duration_input_handler(text, store, now)} :
            AdminInput(u, text, "admin_duration_input_handler", r)

\* A text while admin_conv is in BLOCK_INPUT
AdminBlockInput ==
    \E u \in Users, text \in BlockTexts :
        /\ admin_state[u] = "BLOCK_INPUT"
        /\ \E r \in {admin_block_input_handler(text, store)} :
            AdminInput(u, text, "admin_block_input_handler", r)

\* A text while admin_conv is in BROADCAST_INPUT
AdminBroadcastInput ==
    \E u \in Users, text \in BroadcastTexts :
        /\ admin_state[u] = "BROADCAST_INPUT"
        /\ \E r \in {admin_broadcast_input_handler(text, store)} :
            AdminInput(u, text, "admin_broadcast_input_handler", r)

\* /cancel while admin_conv is in a state: its fallback
AdminCancel ==
    \E u \in Users :
        /\ admin_state[u] # END
        /\ DispatchedFrom(u, "command", SlashCancel, "cancel_handler")
        /\ admin_state' = [admin_state EXCEPT ![u] = cancel_handler.next]
        /\ users_data' = [users_data EXCEPT ![u] = cancel_handler.user_data]
        /\ reply' = cancel_handler.reply
        /\ UNCHANGED store
        /\ AdminFrame

\* /start goes to the CommandHandler registered before admin_conv, which
\* keeps its state.
AdminStart ==
    \E u \in Users :
        /\ DispatchedFrom(u, "command", SlashStart, "start_handler")
        /\ users_data' = [users_data EXCEPT ![u] = start_handler.user_data]
        /\ reply' = start_handler.reply
        /\ UNCHANGED <<admin_state, store>>
        /\ AdminFrame

\* /buat of any user: guard_access saves the store.
AdminBuat ==
    \E u \in Users :
        \E r \in {menu_create_doc_handler(users_data[u], store, u, now)} :
            /\ DispatchedFrom(u, "command", SlashBuat,
                              "menu_create_doc_handler")
            /\ users_data' = [users_data EXCEPT ![u] = r.user_data]
            /\ store' = r.store
            /\ reply' = r.reply
            /\ UNCHANGED admin_state
            /\ AdminFrame

\* The commands of the panel sent by a user who is in no state of
\* admin_conv go to global_text_router.
AdminTextOutside ==
    \E u \in Users,
       text \in WhitelistTexts \cup DurationTexts \cup BlockTexts :
        \E r \in {global_text_router(text, users_data[u], store, u, now)} :
            /\ admin_state[u] = END
            /\ DispatchedFrom(u, "text", text, "global_text_router")
            /\ users_data' = [users_data EXCEPT ![u] = r.user_data]
            /\ store' = r.store
            /\ reply' = r.reply
            /\ UNCHANGED admin_state
            /\ AdminFrame

InitAdmin ==
    /\ FunIdle
    /\ BotIdle
    /\ store = EmptyStore

NextAdmin ==
    \/ Tick
    \/ AdminEntry
    \/ AdminMenuRouter
    \/ AdminWhitelistInput
    \/ AdminDurationInput
    \/ AdminBlockInput
    \/ AdminBroadcastInput
    \/ AdminCancel
    \/ AdminStart
    \/ AdminBuat
    \/ AdminTextOutside

SpecAdmin == InitAdmin /\ [][NextAdmin]_vars

\* The access data of the store: the whitelisted flag and the expiry of
\* each user, a user without a record being as one just created, and the
\* blocked list
Whitelisted(st, uid) == uid \in DOMAIN st.users /\ st.users[uid].whitelisted

ExpiresAt(st, uid) ==
    IF uid \in DOMAIN st.users THEN st.users[uid].access_expires_at ELSE None

AccessData(st) ==
    [u \in Users |-> <<Whitelisted(st, u), ExpiresAt(st, u), u \in st.blocked>>]


\* C25: every change of a whitelisted flag, of an access_expires_at or of
\* the blocked list is made by the handler of an update whose sender is
\* in ADMIN_IDS, and a user who is no administrator is in no state of
\* the admin conversation.
C25_OnlyAdminsChangeAccess ==
    [][/\ AccessData(store') # AccessData(store) =>
            /\ update'.sender \in ADMIN_IDS
            /\ update' # update
       /\ \A u \in Users \ ADMIN_IDS : admin_state'[u] = END]_vars

\* An administrator blocked the user from BLOCK_INPUT.
C25_Witness ==
    /\ update.sender \in ADMIN_IDS
    /\ update.handler = "admin_block_input_handler"
    /\ Sender \in store.blocked
    /\ admin_state[update.sender] = "MENU"

\* The user asked for the panel and was refused.
PanelRefused ==
    /\ update.sender = Sender
    /\ update.handler = "admin_entry_handler"
    /\ reply = <<Note("AdminDenied", <<>>)>>
    /\ admin_state[Sender] = END

\* The user sent a command of the panel: it changed nothing, though
\* guard_access had created the record of the user before.
CommandOutsidePanel ==
    /\ update.sender = Sender
    /\ update.text = Words(<<WordAllow, SenderId>>)
    /\ update.handler = "global_text_router"
    /\ Sender \in DOMAIN store.users
    /\ ~Whitelisted(store, Sender)

\* C26: guard_access grants access exactly when user_has_access returns
\* true for the same store, user and instant, also for an administrator
\* on the blocked list.
C26_GuardAgreesWithHasAccess ==
    \A u \in Users :
        guard_access(store, u, now).ok = user_has_access(store, u, now)

\* The access of a user who is no administrator, read off the store
HasAccess(st, uid, t) ==
    /\ uid \notin st.blocked
    /\ Whitelisted(st, uid)
    /\ \/ ExpiresAt(st, uid) = None
       \/ t <= ExpiresAt(st, uid)[1]

\* A step of the handler of an admin input state that left it for MENU
AdminAccepted(handler) ==
    /\ update' # update
    /\ update'.handler = handler
    /\ admin_state'[update'.sender] = "MENU"

\* C27: a user who is no administrator has access exactly when they are
\* not blocked, are whitelisted and have no expiry or one that the
\* current instant is not after; a duration set for a user who is not
\* whitelisted grants no access; deny revokes the access and keeps the
\* stored expiry.
C27_AccessOfNonAdmin ==
    /\ user_has_access(store, Sender, now) = HasAccess(store, Sender, now)
    /\ [][/\ store' # store \/ now' # now
             => user_has_access(store', Sender, now')
                    = HasAccess(store', Sender, now')
          /\ AdminAccepted("admin_duration_input_handler")
             /\ ~Whitelisted(store, Sender)
             => ~user_has_access(store', Sender, now')
          /\ AdminAccepted("admin_whitelist_input_handler")
             /\ update'.text = Words(<<WordDeny, SenderId>>)
             => /\ ~user_has_access(store', Sender, now')
                /\ ExpiresAt(store', Sender) = ExpiresAt(store, Sender)]_vars

\* deny after a duration was set: the expiry is still stored.
C27_Witness ==
    /\ update.handler = "admin_whitelist_input_handler"
    /\ update.text = Words(<<WordDeny, SenderId>>)
    /\ ~Whitelisted(store, Sender)
    /\ ExpiresAt(store, Sender) # None
    /\ ~user_has_access(store, Sender, now)

\* Access on the day of the expiry, and none the day after
AccessOnLastDay ==
    /\ ExpiresAt(store, Sender) = <<now>>
    /\ user_has_access(store, Sender, now)

NoAccessAfterLastDay ==
    /\ ExpiresAt(store, Sender) # None
    /\ ExpiresAt(store, Sender)[1] < now
    /\ Whitelisted(store, Sender)
    /\ Sender \notin store.blocked
    /\ ~user_has_access(store, Sender, now)

\* A duration set for a user who is not whitelisted
DurationWithoutWhitelist ==
    /\ update.handler = "admin_duration_input_handler"
    /\ ExpiresAt(store, Sender) # None
    /\ ~Whitelisted(store, Sender)
    /\ admin_state[update.sender] = "MENU"

\* C28: admin_duration_input_handler accepts a day count from 1 to 3650
\* only: for 0, for more than 3650 and for a text that is not an id and a
\* count, the store is as before and the conversation stays in
\* DURATION_INPUT; else the expiry of the user is the current instant
\* plus the days, nothing else of the access data changes and the
\* conversation returns to MENU.
C28_DurationFromOneTo3650 ==
    [][update' # update /\ update'.handler = "admin_duration_input_handler" =>
        \A g \in {TwoGroups(strip(update'.text))} :
            IF /\ g.ok /\ IsNumber(g.first) /\ IsNumber(g.second)
               /\ int(g.second) \in 1..3650
            THEN /\ admin_state'[update'.sender] = "MENU"
                 /\ ExpiresAt(store', int(g.first)) = <<now + int(g.second)>>
                 /\ Whitelisted(store', int(g.first))
                        = Whitelisted(store, int(g.first))
                 /\ store'.blocked = store.blocked
            ELSE /\ admin_state'[update'.sender] = "DURATION_INPUT"
                 /\ store' = store]_vars

\* 3650 days were accepted.
C28_Witness ==
    /\ update.handler = "admin_duration_input_handler"
    /\ update.text = Words(<<SenderId, <<"3", "6", "5", "0">>>>)
    /\ ExpiresAt(store, Sender) # None
    /\ ExpiresAt(store, Sender)[1] >= 3650
    /\ admin_state[update.sender] = "MENU"

\* 3651 days, 0 days and the cancel button were refused.
DurationRefused ==
    /\ update.handler = "admin_duration_input_handler"
    /\ update.text \in {Words(<<SenderId, <<"3", "6", "5", "1">>>>),
                        Words(<<SenderId, <<"0">>>>), SUBMENU_CANCEL}
    /\ admin_state[update.sender] = "DURATION_INPUT"


\* ------------------------------------------------------------------------
\* The inventory (inventori.py)
\* ------------------------------------------------------------------------

\* The labels of inventori.py are stored mis-encoded; the characters that
\* stand for the emoji are written as one element.
\* INVENTORY_MENU_LABEL = "(box) Stored XIE"
INVENTORY_MENU_LABEL ==
    <<"<inv-box>", " ", "S", "t", "o", "r", "e", "d", " ", "X", "I", "E">>

\* INVENTORY_SUBMENU_START = "(rocket) Start"
INVENTORY_SUBMENU_START == <<"<inv-rocket>", " ", "S", "t", "a", "r", "t">>

\* INVENTORY_SUBMENU_INPUT = "(plus) Input"
INVENTORY_SUBMENU_INPUT == <<"<inv-plus>", " ", "I", "n", "p", "u", "t">>

\* INVENTORY_SUBMENU_INFO = "(chart) Info"
INVENTORY_SUBMENU_INFO == <<"<inv-chart>", " ", "I", "n", "f", "o">>

\* INVENTORY_SUBMENU_BACK = "(back) Kembali"
INVENTORY_SUBMENU_BACK ==
    <<"<inv-back>", " ", "K", "e", "m", "b", "a", "l", "i">>

SlashInventori == <<"/", "i", "n", "v", "e", "n", "t", "o", "r", "i">>

SlashInventoriInput == SlashInventori \o <<"_", "i", "n", "p", "u", "t">>

INV_SKIP_PASSWORD ==
    <<"i", "n", "v", "_", "s", "k", "i", "p", "_", "p", "a", "s", "s", "w",
      "o", "r", "d">>

INV_CANCEL_INPUT ==
    <<"i", "n", "v", "_", "c", "a", "n", "c", "e", "l", "_", "i", "n", "p",
      "u", "t">>

\* The most entries the inventories of all users hold together
MaxEntries == 2

\* The positions p such that (?:^|;)\s*<name> matches from p: p is 0 or
\* the position of a ";", and name follows the whitespace after it
FoundAt(s, name) ==
    {p \in 0..Len(s) :
        /\ p = 0 \/ s[p] = ";"
        /\ LET q == FirstNotIn(s, p + 1, Whitespace)
           IN /\ q + Len(name) - 1 <= Len(s)
              /\ SubSeq(s, q, q + Len(name) - 1) = name}

\* COOKIE_XS_REGEX.search(cookie)
COOKIE_XS_REGEX_search(s) == FoundAt(s, XS) # {}

\* COOKIE_UID_REGEX.search(cookie): the group (\d+) of the leftmost
\* match, or <<>> when there is none
COOKIE_UID_REGEX_search(s) ==
    LET hits == {p \in FoundAt(s, C_USER) :
                    LET d == FirstNotIn(s, p + 1, Whitespace) + Len(C_USER)
                    IN d <= Len(s) /\ s[d] \in Digits}
    IN IF hits = {} THEN <<>>
       ELSE LET d == FirstNotIn(s, Lowest(hits) + 1, Whitespace)
                     + Len(C_USER)
            IN SubSeq(s, d, FirstNotIn(s, d, Digits) - 1)

\* def _validate_cookie_minimal(cookie): "ok", or what is missing
validate_cookie_minimal(cookie) ==
    IF ~Contains(cookie, C_USER) THEN "c_user"
    ELSE IF ~COOKIE_XS_REGEX_search(cookie) THEN "xs"
    ELSE "ok"

\* _extract_uid without the test of UID_REGEX
extract_uid_any_length(cookie) == strip(COOKIE_UID_REGEX_search(cookie))

\* def _extract_uid(cookie): the UID, or <<>> for None
extract_uid(cookie) ==
    LET uid == strip(COOKIE_UID_REGEX_search(cookie))
    IN IF uid # <<>> /\ UID_REGEX_fullmatch(uid) THEN uid ELSE <<>>

\* def _validate_filename(raw); FILENAME_REGEX of inventori.py is the
\* pattern of fbdocbotx.py
validate_filename(raw) ==
    LET s == strip(raw)
    IN IF s = <<>> THEN Accept
       ELSE IF ~FILENAME_REGEX_fullmatch(s)
            THEN Reject(Rejection("InvalidFilename", "filename", 0, Absent,
                                  "-", <<>>))
       ELSE Accept

\* def _build_filename(raw); "<timestamp>" stands for %Y%m%d_%H%M%S
inv_build_filename(raw) ==
    LET s == strip(raw)
    IN IF s = <<>>
       THEN <<"i", "n", "v", "e", "n", "t", "o", "r", "y", "_", "e", "x", "p",
              "o", "r", "t", "_", "<timestamp>">> \o XLSX_EXT
       ELSE s \o XLSX_EXT

\* InventoryEntry and InventoryMeta
InventoryEntry(uid, password, cookie, t) ==
    [uid |-> uid, password |-> password, cookie |-> cookie, created_at |-> t]

InventoryMeta(uid, password, t) ==
    [last_uid |-> uid, last_password_empty |-> (password = <<>>),
     last_input_at |-> t]

\* _store_entry with one list for all users, under the key 0
store_entry_shared(entries, meta, user_id, uid, password, cookie, t) ==
    [entries |-> Put(entries, 0,
                     Append(Get(entries, 0, <<>>),
                            InventoryEntry(uid, password, cookie, t))),
     meta |-> Put(meta, 0, InventoryMeta(uid, password, t))]

\* def _store_entry(user_id, uid, password, cookie), on the two dicts of
\* the module and at the instant t: the dicts it leaves
store_entry(entries, meta, user_id, uid, password, cookie, t) ==
    [entries |-> Put(entries, user_id,
                     Append(Get(entries, user_id, <<>>),
                            InventoryEntry(uid, password, cookie, t))),
     meta |-> Put(meta, user_id, InventoryMeta(uid, password, t))]

\* del d[k] when k is in d
Del(d, k) == [x \in DOMAIN d \ {k} |-> d[x]]

\* def _build_inventory_xlsx(entries): the rows of the sheet
build_inventory_xlsx(entries) ==
    <<HeaderRow>>
    \o [i \in 1..Len(entries) |->
            <<entries[i].uid, entries[i].password, entries[i].cookie>>]

\* Handlers of inventori.py: what a handler returns for an update of the
\* user
\*   next: the state it returns; user_data: the dict of the user it leaves;
\*   reply: the messages it sent; store: bot_data.json as _guard saved it;
\*   entries, meta: the dicts of the module; delivered: the document sent

\* A message that states a value
Told(kind, value, counts) == Rejection(kind, "-", 0, value, "-", counts)

\* What a handler that only sends messages returns.
InvReply(next, ud, kind) ==
    [next |-> next, user_data |-> ud, reply |-> <<Note(kind, <<>>)>>]

\* dict.pop("inv_pending", None)
PopPending(ud) == Del(ud, "inv_pending")

\* def inventory_menu_handler
inventory_menu_handler(ud, st, uid, t) ==
    LET g == guard_access(st, uid, t)
    IN [next |-> END, user_data |-> ud, store |-> g.store,
        reply |-> IF g.ok THEN <<Note("InventoryMenu", <<>>)>> ELSE g.reply]

\* def inventory_input_start_handler
inventory_input_start_handler(ud, st, uid, t) ==
    LET g == guard_access(st, uid, t)
    IN IF ~g.ok
       THEN [next |-> END, user_data |-> ud, store |-> g.store,
             reply |-> g.reply]
       ELSE [next |-> "ASK_COOKIE", user_data |-> PopPending(ud),
             store |-> g.store, reply |-> <<Note("AskInventoryCookie", <<>>)>>]

\* The texts that cancel a step of the inventory
InventoryCancelTexts == {INVENTORY_SUBMENU_BACK, TextBatal, SlashStart}

\* def inventory_cookie_handler
inventory_cookie_handler(text, ud) ==
    LET raw == strip(text)
        uid == extract_uid(raw)
    IN IF raw \in InventoryCancelTexts
       THEN InvReply(END, PopPending(ud), "InventoryInputCancelled")
       ELSE IF validate_cookie_minimal(raw) # "ok"
       THEN [next |-> "ASK_COOKIE", user_data |-> ud,
             reply |-> <<Rejection("CookieRefused", "cookie", 0, Absent,
                                   validate_cookie_minimal(raw), <<>>)>>]
       ELSE IF uid = <<>> THEN InvReply("ASK_COOKIE", ud, "UidNotDetected")
       ELSE [next |-> "ASK_PASSWORD",
             user_data |-> Put(ud, "inv_pending",
                               [uid |-> uid, cookie |-> raw]),
             reply |-> <<Told("CookieValid", uid, <<>>)>>]

\* The end of both handlers that store an entry
StoreResult(next, ud, msgs, entries, meta) ==
    [next |-> next, user_data |-> ud, reply |-> msgs, entries |-> entries,
     meta |-> meta]

\* The end of the password steps that leaves the pending data in place
store_pending_keeping(ud, entries, meta, user_id, password, t) ==
    LET pending == Get(ud, "inv_pending", EmptyDict)
        uid == Get(pending, "uid", <<>>)
        cookie == Get(pending, "cookie", <<>>)
        s == store_entry(entries, meta, user_id, uid, password, cookie, t)
    IN IF uid = <<>> \/ cookie = <<>>
       THEN StoreResult(END, ud, <<Note("PendingLost", <<>>)>>, entries, meta)
       ELSE StoreResult(END, ud, <<Told("EntryStored", uid, <<>>)>>,
                        s.entries, s.meta)

store_pending(ud, entries, meta, user_id, password, t) ==
    LET pending == Get(ud, "inv_pending", EmptyDict)
        uid == Get(pending, "uid", <<>>)
        cookie == Get(pending, "cookie", <<>>)
        s == store_entry(entries, meta, user_id, uid, password, cookie, t)
    IN IF uid = <<>> \/ cookie = <<>>
       THEN StoreResult(END, ud, <<Note("PendingLost", <<>>)>>, entries, meta)
       ELSE StoreResult(END, PopPending(ud),
                        <<Told("EntryStored", uid, <<>>)>>, s.entries, s.meta)

\* def inventory_password_handler
inventory_password_handler(text, ud, entries, meta, user_id, t) ==
    LET raw == strip(text)
    IN IF raw \in InventoryCancelTexts
       THEN StoreResult(END, PopPending(ud),
                        <<Note("InventoryInputCancelled", <<>>)>>,
                        entries, meta)
       ELSE IF ~PASSWORD_REGEX_fullmatch(raw)
       THEN StoreResult("ASK_PASSWORD", ud,
                        <<Note("PasswordInvalid", <<>>)>>, entries, meta)
       ELSE store_pending(ud, entries, meta, user_id, raw, t)

\* def inventory_password_skip_callback
inventory_password_skip_callback(ud, entries, meta, user_id, t) ==
    store_pending(ud, entries, meta, user_id, <<>>, t)

\* def inventory_cancel_callback
inventory_cancel_callback(ud) ==
    [next |-> END, user_data |-> PopPending(ud),
     reply |-> <<Note("InventoryCancelled", <<>>),
                 Note("BackToInventoryMenu", <<>>)>>]

\* def inventory_start_handler
inventory_start_handler(ud, st, entries, uid, t) ==
    LET g == guard_access(st, uid, t)
    IN IF ~g.ok
       THEN [next |-> END, user_data |-> ud, store |-> g.store,
             reply |-> g.reply]
       ELSE IF Get(entries, uid, <<>>) = <<>>
       THEN [next |-> END, user_data |-> ud, store |-> g.store,
             reply |-> <<Note("InventoryEmpty", <<>>)>>]
       ELSE [next |-> "ASK_FILENAME", user_data |-> ud, store |-> g.store,
             reply |-> <<Note("AskInventoryFilename", <<>>)>>]

\* How far inventory_filename_handler gets before a call raises:
\* _build_inventory_xlsx, send_message or send_document, or none of them.
\* No handler catches the exception: the conversation keeps its state.
ExportOutcomes == {"sent", "render_failed", "notice_failed", "document_failed"}

\* What inventory_filename_handler returns
ExportResult(next, msgs, entries, meta, docs) ==
    [next |-> next, reply |-> msgs, entries |-> entries, meta |-> meta,
     delivered |-> docs]

\* inventory_filename_handler that leaves the dicts as they are
inventory_filename_handler_keeping(text, entries, meta, user_id, outcome) ==
    LET raw == strip(text)
        mine == Get(entries, user_id, <<>>)
    IN IF raw \in InventoryCancelTexts
       THEN ExportResult(END, <<Note("ExportCancelled", <<>>)>>, entries,
                         meta, <<>>)
       ELSE IF ~validate_filename(raw).ok
       THEN ExportResult("ASK_FILENAME", <<validate_filename(raw).err>>,
                         entries, meta, <<>>)
       ELSE IF mine = <<>>
       THEN ExportResult(END, <<Note("InventoryGone", <<>>)>>, entries, meta,
                         <<>>)
       ELSE IF outcome = "sent"
       THEN ExportResult(END, <<Note("ExportReady", <<Len(mine)>>)>>,
                         entries, meta,
                         <<[filename |-> inv_build_filename(raw),
                            rows |-> build_inventory_xlsx(mine)]>>)
       ELSE ExportResult("ASK_FILENAME", <<>>, entries, meta, <<>>)

\* def inventory_filename_handler
inventory_filename_handler(text, entries, meta, user_id, outcome) ==
    LET raw == strip(text)
        mine == Get(entries, user_id, <<>>)
    IN IF raw \in InventoryCancelTexts
       THEN ExportResult(END, <<Note("ExportCancelled", <<>>)>>, entries,
                         meta, <<>>)
       ELSE IF ~validate_filename(raw).ok
       THEN ExportResult("ASK_FILENAME", <<validate_filename(raw).err>>,
                         entries, meta, <<>>)
       ELSE IF mine = <<>>
       THEN ExportResult(END, <<Note("InventoryGone", <<>>)>>, entries, meta,
                         <<>>)
       ELSE IF outcome = "sent"
       THEN ExportResult(END, <<Note("ExportReady", <<Len(mine)>>)>>,
                         Del(entries, user_id), Del(meta, user_id),
                         <<[filename |-> inv_build_filename(raw),
                            rows |-> build_inventory_xlsx(mine)]>>)
       ELSE IF outcome = "document_failed"
       THEN ExportResult("ASK_FILENAME",
                         <<Note("ExportReady", <<Len(mine)>>)>>, entries,
                         meta, <<>>)
       ELSE ExportResult("ASK_FILENAME", <<>>, entries, meta, <<>>)

\* def inventory_info_handler
inventory_info_handler(ud, st, entries, meta, uid, t) ==
    LET g == guard_access(st, uid, t)
        mine == Get(entries, uid, <<>>)
        m == Get(meta, uid, InventoryMeta(<<>>, <<"-">>, <<>>))
    IN [next |-> END, user_data |-> ud, store |-> g.store,
        reply |-> IF ~g.ok THEN g.reply
                  ELSE IF mine = <<>> THEN <<Note("InventoryInfoEmpty", <<>>)>>
                  ELSE <<Told("InventoryInfo", m.last_uid, <<Len(mine)>>)>>]


\* ------------------------------------------------------------------------
\* The inventory of two users
\* ------------------------------------------------------------------------

\* "c_user=<uid>;xs=1"
InventoryCookie(uid) == C_USER \o uid \o <<";">> \o XS \o <<"1">>

\* What a user sends at the cookie step: the cookie of their account, a
\* cookie whose UID is too short, a cookie without xs, or a word that
\* cancels
InventoryCookieOf(u) == InventoryCookie(IF u \in ADMIN_IDS THEN Uid1 ELSE Uid2)

InventoryCookieTexts(u) ==
    {InventoryCookieOf(u), InventoryCookie(<<"1", "2", "3">>), C_USER \o Uid1,
     TextBatal}

InventoryPasswordTexts == {PwdAt(1), PwdBad, INVENTORY_SUBMENU_BACK}

InventoryFilenameTexts ==
    {ReportName, <<" ">>, Words(<<Uid1, Uid2>>), TextBatal}

\* The entries of a user, and the entries of all users together
EntriesOf(u) == Get(INVENTORY_STORE, u, <<>>)

RECURSIVE EntriesIn(_, _)
EntriesIn(entries, S) ==
    IF S = {} THEN 0
    ELSE LET u == Lowest(S)
         IN Len(Get(entries, u, <<>>)) + EntriesIn(entries, S \ {u})

\* What the handlers of the inventory leave alone
InventoryFrame ==
    /\ UNCHANGED <<manual_state, instant_state, user_data, built, now,
                   admin_state>>
    /\ UNCHANGED fun_vars

\* /inventori or the button of the menu: the handlers registered before
\* the conversations, which keep their states
InventoryMenu ==
    \E u \in Users,
       e \in {<<"command", SlashInventori>>,
              <<"text", INVENTORY_MENU_LABEL>>} :
        \E r \in {inventory_menu_handler(users_data[u], store, u, now)} :
            /\ DispatchedFrom(u, e[1], e[2], "inventory_menu_handler")
            /\ store' = r.store
            /\ reply' = r.reply
            /\ delivered' = <<>>
            /\ UNCHANGED <<inv_state, gen_state, users_data, INVENTORY_STORE,
                           INVENTORY_META>>
            /\ InventoryFrame

\* The button Info: registered before the conversations as well
InventoryInfo ==
    \E u \in Users :
        \E r \in {inventory_info_handler(users_data[u], store,
                                         INVENTORY_STORE, INVENTORY_META, u,
                                         now)} :
            /\ DispatchedFrom(u, "text", INVENTORY_SUBMENU_INFO,
                              "inventory_info_handler")
            /\ store' = r.store
            /\ reply' = r.reply
            /\ delivered' = <<>>
            /\ UNCHANGED <<inv_state, gen_state, users_data, INVENTORY_STORE,
                           INVENTORY_META>>
            /\ InventoryFrame

\* /inventori_input or the button Input: the entry point of inv_conv, in
\* any state (allow_reentry)
InventoryInputStart ==
    \E u \in Users,
       e \in {<<"command", SlashInventoriInput>>,
              <<"text", INVENTORY_SUBMENU_INPUT>>} :
        \E r \in {inventory_input_start_handler(users_data[u], store, u,
                                                now)} :
            /\ DispatchedFrom(u, e[1], e[2], "inventory_input_start_handler")
            /\ inv_state' = [inv_state EXCEPT ![u] = r.next]
            /\ users_data' = [users_data EXCEPT ![u] = r.user_data]
            /\ store' = r.store
            /\ reply' = r.reply
            /\ delivered' = <<>>
            /\ UNCHANGED <<gen_state, INVENTORY_STORE, INVENTORY_META>>
            /\ InventoryFrame

\* A text while inv_conv is in ASK_COOKIE
InventoryCookieStep ==
    \E u \in Users :
      \E text \in InventoryCookieTexts(u) :
        \E r \in {inventory_cookie_handler(text, users_data[u])} :
            /\ inv_state[u] = "ASK_COOKIE"
            /\ DispatchedFrom(u, "text", text, "inventory_cookie_handler")
            /\ inv_state' = [inv_state EXCEPT ![u] = r.next]
            /\ users_data' = [users_data EXCEPT ![u] = r.user_data]
            /\ reply' = r.reply
            /\ delivered' = <<>>
            /\ UNCHANGED <<gen_state, store, INVENTORY_STORE, INVENTORY_META>>
            /\ InventoryFrame

\* The end of both steps that store an entry; the inventories of all
\* users together hold MaxEntries entries at most
InventoryStored(u, r) ==
    /\ EntriesIn(r.entries, Users) <= MaxEntries
    /\ inv_state' = [inv_state EXCEPT ![u] = r.next]
    /\ users_data' = [users_data EXCEPT ![u] = r.user_data]
    /\ INVENTORY_STORE' = r.entries
    /\ INVENTORY_META' = r.meta
    /\ reply' = r.reply
    /\ delivered' = <<>>
    /\ UNCHANGED <<gen_state, store>>
    /\ InventoryFrame

\* A text while inv_conv is in ASK_PASSWORD
InventoryPasswordStep ==
    \E u \in Users, text \in InventoryPasswordTexts :
        \E r \in {inventory_password_handler(text, users_data[u],
                                             INVENTORY_STORE, INVENTORY_META,
                                             u, now)} :
            /\ inv_state[u] = "ASK_PASSWORD"
            /\ DispatchedFrom(u, "text", text, "inventory_password_handler")
            /\ InventoryStored(u, r)

\* The button that skips the password, while inv_conv is in ASK_PASSWORD
InventoryPasswordSkip ==
    \E u \in Users :
        \E r \in {inventory_password_skip_callback(users_data[u],
                                                   INVENTORY_STORE,
                                                   INVENTORY_META, u, now)} :
            /\ inv_state[u] = "ASK_PASSWORD"
            /\ DispatchedFrom(u, "callback", INV_SKIP_PASSWORD,
                              "inventory_password_skip_callback")
            /\ InventoryStored(u, r)

\* The button that cancels: a fallback of inv_conv, and of gen_conv when
\* inv_conv is in no state
InventoryCancel ==
    \E u \in Users :
        \E r \in {inventory_cancel_callback(users_data[u])} :
            /\ inv_state[u] # END \/ gen_state[u] # END
            /\ DispatchedFrom(u, "callback", INV_CANCEL_INPUT,
                              "inventory_cancel_callback")
            /\ IF inv_state[u] # END
               THEN /\ inv_state' = [inv_state EXCEPT ![u] = r.next]
                    /\ UNCHANGED gen_state
               ELSE /\ gen_state' = [gen_state EXCEPT ![u] = r.next]
                    /\ UNCHANGED inv_state
            /\ users_data' = [users_data EXCEPT ![u] = r.user_data]
            /\ reply' = r.reply
            /\ delivered' = <<>>
            /\ UNCHANGED <<store, INVENTORY_STORE, INVENTORY_META>>
            /\ InventoryFrame

\* The button Start: the entry point of gen_conv, in any state of it.
\* inv_conv is registered first and takes the text while it is in a state.
InventoryStart ==
    \E u \in Users :
        \E r \in {inventory_start_handler(users_data[u], store,
                                          INVENTORY_STORE, u, now)} :
            /\ inv_state[u] = END
            /\ DispatchedFrom(u, "text", INVENTORY_SUBMENU_START,
                              "inventory_start_handler")
            /\ gen_state' = [gen_state EXCEPT ![u] = r.next]
            /\ store' = r.store
            /\ reply' = r.reply
            /\ delivered' = <<>>
            /\ UNCHANGED <<inv_state, users_data, INVENTORY_STORE,
                           INVENTORY_META>>
            /\ InventoryFrame

\* A text while gen_conv is in ASK_FILENAME and inv_conv is in no state
InventoryFilenameStep ==
    \E u \in Users, text \in InventoryFilenameTexts,
       outcome \in ExportOutcomes :
        \E r \in {inventory_filename_handler(text, INVENTORY_STORE,
                                             INVENTORY_META, u, outcome)} :
            /\ inv_state[u] = END
            /\ gen_state[u] = "ASK_FILENAME"
            /\ DispatchedFrom(u, "text", text, "inventory_filename_handler")
            /\ gen_state' = [gen_state EXCEPT ![u] = r.next]
            /\ INVENTORY_STORE' = r.entries
            /\ INVENTORY_META' = r.meta
            /\ reply' = r.reply
            /\ delivered' = r.delivered
            /\ UNCHANGED <<inv_state, users_data, store>>
            /\ InventoryFrame

\* /start of any user clears the user_data: the conversations keep their
\* states
InventoryStartCommand ==
    \E u \in Users :
        /\ DispatchedFrom(u, "command", SlashStart, "start_handler")
        /\ users_data' = [users_data EXCEPT ![u] = start_handler.user_data]
        /\ reply' = start_handler.reply
        /\ delivered' = <<>>
        /\ UNCHANGED <<inv_state, gen_state, store, INVENTORY_STORE,
                       INVENTORY_META>>
        /\ InventoryFrame

\* bot_data.json as earlier runs left it: both users have a record, and
\* the sender is whitelisted or is not
InventoryStoreOf(w) ==
    [EmptyStore EXCEPT !.users =
        Put(Put(EmptyDict, 1, NewUserRecord), Sender,
            [NewUserRecord EXCEPT !.whitelisted = w])]

\* The dicts of the module are empty when it is imported.
InitInventory ==
    /\ FunIdle
    /\ BotIdle
    /\ store \in {InventoryStoreOf(TRUE), InventoryStoreOf(FALSE)}

NextInventory ==
    \/ InventoryMenu
    \/ InventoryInfo
    \/ InventoryInputStart
    \/ InventoryCookieStep
    \/ InventoryPasswordStep
    \/ InventoryPasswordSkip
    \/ InventoryCancel
    \/ InventoryStart
    \/ InventoryFilenameStep
    \/ InventoryStartCommand

SpecInventory == InitInventory /\ [][NextInventory]_vars


\* What the module holds for a user: whether the dicts have the key, the
\* entries and the metadata
HeldFor(entries, meta, u) ==
    <<u \in DOMAIN entries, Get(entries, u, <<>>), u \in DOMAIN meta,
      Get(meta, u, <<>>)>>

\* The update was handled by a step that stored an entry
EntryStored ==
    /\ update'.handler \in {"inventory_password_handler",
                            "inventory_password_skip_callback"}
    /\ reply' # <<>>
    /\ reply'[1].kind = "EntryStored"

\* C22: inventories are per user.  A step of the inventory made for the
\* update of a user leaves the entries and the metadata of every other
\* user as they were, and a step that stores an entry appends that one
\* entry, made of the pending UID and cookie of the sender, to the
\* inventory of the sender and adds a key for nobody else.
C22_InventoriesArePerUser ==
    [][\A a \in Users :
          update'.sender = a
          => /\ \A b \in Users \ {a} :
                    HeldFor(INVENTORY_STORE', INVENTORY_META', b)
                        = HeldFor(INVENTORY_STORE, INVENTORY_META, b)
             /\ EntryStored
                => /\ DOMAIN INVENTORY_STORE' = DOMAIN INVENTORY_STORE \cup {a}
                   /\ DOMAIN INVENTORY_META' = DOMAIN INVENTORY_META \cup {a}
                   /\ Len(INVENTORY_STORE'[a]) = Len(EntriesOf(a)) + 1
                   /\ SubSeq(INVENTORY_STORE'[a], 1, Len(EntriesOf(a)))
                          = EntriesOf(a)
                   /\ \A e \in {INVENTORY_STORE'[a][Len(EntriesOf(a)) + 1]} :
                          /\ e.uid = users_data[a]["inv_pending"].uid
                          /\ e.cookie = users_data[a]["inv_pending"].cookie]_vars

\* The sender stored an entry while the administrator holds one
C22_Witness ==
    /\ update.sender = Sender
    /\ update.handler = "inventory_password_handler"
    /\ reply # <<>> /\ reply[1].kind = "EntryStored"
    /\ Len(EntriesOf(Sender)) = 1
    /\ Len(EntriesOf(1)) = 1
    /\ EntriesOf(Sender)[1].uid = Uid2
    /\ EntriesOf(1)[1].uid = Uid1

\* The administrator received an export while the sender holds an entry
ExportBesideOtherInventory ==
    /\ update.sender = 1
    /\ update.handler = "inventory_filename_handler"
    /\ delivered # <<>>
    /\ 1 \notin DOMAIN INVENTORY_STORE
    /\ Len(EntriesOf(Sender)) = 1

\* The sender cancelled an input while the administrator is asked for a
\* password
CancelBesideOtherInput ==
    /\ update.sender = Sender
    /\ update.handler = "inventory_cancel_callback"
    /\ inv_state[1] = "ASK_PASSWORD"
    /\ "inv_pending" \in DOMAIN users_data[1]

\* The update was handled by inventory_filename_handler, which sent the
\* document
ExportDelivered ==
    /\ update'.handler = "inventory_filename_handler"
    /\ delivered' # <<>>

\* C23: an export that is delivered has the header and then one row for
\* each entry of the user, in the order of insertion, and leaves neither
\* entries nor metadata of the user; the entries of a user change by the
\* append of one entry or by a delivered export only; and a Start of a
\* user without entries ends the conversation with no document, and for
\* a user with access with the message that the inventory is empty.
C23_ExportRendersAllAndClears ==
    [][\A u \in Users :
          update'.sender = u
          => /\ ExportDelivered
                => /\ Len(delivered') = 1
                   /\ \A rows \in {delivered'[1].rows} :
                          /\ Len(rows) = Len(EntriesOf(u)) + 1
                          /\ rows[1] = HeaderRow
                          /\ \A i \in 1..Len(EntriesOf(u)) :
                                 rows[i + 1] = <<EntriesOf(u)[i].uid,
                                                 EntriesOf(u)[i].password,
                                                 EntriesOf(u)[i].cookie>>
                   /\ EntriesOf(u) # <<>>
                   /\ u \notin DOMAIN INVENTORY_STORE'
                   /\ u \notin DOMAIN INVENTORY_META'
             /\ Get(INVENTORY_STORE', u, <<>>) # EntriesOf(u)
                => \/ ExportDelivered
                   \/ /\ EntryStored
                      /\ SubSeq(INVENTORY_STORE'[u], 1, Len(EntriesOf(u)))
                             = EntriesOf(u)
             /\ update'.handler = "inventory_start_handler"
                /\ EntriesOf(u) = <<>>
                => /\ gen_state'[u] = END
                   /\ delivered' = <<>>
                   /\ user_has_access(store, u, now)
                      => reply' = <<Note("InventoryEmpty", <<>>)>>]_vars

\* An export of two entries, the one with a password first, was delivered
C23_Witness ==
    /\ update.handler = "inventory_filename_handler"
    /\ delivered # <<>>
    /\ Len(delivered[1].rows) = 3
    /\ delivered[1].rows[2][2] = PwdAt(1)
    /\ delivered[1].rows[3][2] = <<>>
    /\ update.sender \notin DOMAIN INVENTORY_STORE
    /\ update.sender \notin DOMAIN INVENTORY_META

\* An export of two entries, the one without a password first
ExportInOtherOrder ==
    /\ update.handler = "inventory_filename_handler"
    /\ delivered # <<>>
    /\ Len(delivered[1].rows) = 3
    /\ delivered[1].rows[2][2] = <<>>
    /\ delivered[1].rows[3][2] = PwdAt(1)

\* A Start of a user with access was refused: the inventory is empty
StartRefusedAsEmpty ==
    /\ update.handler = "inventory_start_handler"
    /\ update.sender = Sender
    /\ reply = <<Note("InventoryEmpty", <<>>)>>
    /\ gen_state[Sender] = END

\* send_document raised: the inventory and the state are as they were
ExportFailedKeepsInventory ==
    /\ update.handler = "inventory_filename_handler"
    /\ update.text = ReportName
    /\ delivered = <<>>
    /\ gen_state[update.sender] = "ASK_FILENAME"
    /\ EntriesOf(update.sender) # <<>>


\* ------------------------------------------------------------------------
\* The conversations of one user
\* ------------------------------------------------------------------------

\* The conversations of a user that are in a state: manual_conv and
\* instant_conv are followed for the sender, admin_conv, inv_conv and
\* gen_conv for every user
LiveConversations(u) ==
    {c \in {"manual_conv", "instant_conv", "admin_conv", "inv_conv",
            "gen_conv"} :
        CASE c = "manual_conv" -> u = Sender /\ manual_state # END
          [] c = "instant_conv" -> u = Sender /\ instant_state # END
          [] c = "admin_conv" -> admin_state[u] # END
          [] c = "inv_conv" -> inv_state[u] # END
          [] c = "gen_conv" -> gen_state[u] # END}

\* C31: for every user at most one of the five conversations is in a
\* state.
C31_AtMostOneConversation ==
    \A u \in Users : Cardinality(LiveConversations(u)) <= 1


\* ------------------------------------------------------------------------
\* The cookie text of the manual and of the instant mode
\* ------------------------------------------------------------------------

\* The parts a cookie text is made of: the two pairs of a cookie, and two
\* whole cookies
CookieParts == {C_USER \o Uid1, XS \o <<"1">>, CookieAt(1), CookieAt(2)}

\* What stands between two parts, and before the first and after the
\* last one
CookieSeparators == {<<";">>, <<";", " ">>, <<" ">>, <<",">>, <<",", " ">>}

CookieMargins == {<<>>, <<" ">>, <<",">>}

\* The UIDs and the passwords accepted before the cookies
UidsBefore(n) == SubSeq(<<Uid1, Uid2>>, 1, n)

PasswordsBefore(n) == SubSeq(<<PwdAt(1), PwdAt(2)>>, 1, n)

\* A cookie text after n UIDs and n passwords, and the instant message
\* that has it as its third line
CookieTextDraw(parts, sep, margin, n) ==
    [text |-> margin \o Join(parts, sep) \o margin, n |-> n,
     message |-> Join(<<Words(UidsBefore(n)), Words(PasswordsBefore(n)),
                        margin \o Join(parts, sep) \o margin>>, <<"\n">>)]

InitCookieText ==
    /\ \E parts \in SeqUpTo(CookieParts, MaxTokens) \ {<<>>},
          sep \in CookieSeparators, margin \in CookieMargins, n \in 1..2 :
            input = CookieTextDraw(parts, sep, margin, n)
    /\ output = <<>>
    /\ doc = <<>>
    /\ pc = "drawn"
    /\ BotIdle
    /\ store = EmptyStore

\* The text arrives while manual_conv is in ASK_COOKIE
ApplyAskCookie ==
    /\ pc = "drawn"
    /\ output' = ask_cookie_handler(
                     input.text,
                     Put(Put(EmptyDict, "uids", UidsBefore(input.n)),
                         "passwords", PasswordsBefore(input.n)))
    /\ pc' = "manual"
    /\ UNCHANGED <<input, doc>>
    /\ UNCHANGED bot_vars

\* The message arrives while instant_conv is in ASK_INSTANT_PAYLOAD
ApplyAskInstantPayload ==
    /\ pc = "drawn"
    /\ output' = ask_instant_payload_handler(input.message, EmptyDict)
    /\ pc' = "instant"
    /\ UNCHANGED <<input, doc>>
    /\ UNCHANGED bot_vars

NextCookieText == ApplyAskCookie \/ ApplyAskInstantPayload

SpecCookieText == InitCookieText /\ [][NextCookieText]_vars

\* The cookies the handler accepted: one sequence, or none
AcceptedCookies ==
    IF pc = "manual" /\ output.next = "ASK_FILENAME_MANUAL"
    THEN {output.user_data["cookies"]}
    ELSE IF pc = "instant" /\ output.next = "ASK_FILENAME_INSTANT"
    THEN {output.user_data["instant_parsed"].cookies}
    ELSE {}

\* A comma or a whitespace stands between two other characters
SplitInside(s) ==
    \E i, j, k \in 1..Len(s) :
        /\ i < j /\ j < k
        /\ s[j] \in Delimiters
        /\ s[i] \notin Delimiters /\ s[k] \notin Delimiters

\* C32: in the manual and in the instant mode the accepted cookies are the
\* runs of the cookie text between commas and whitespace, in order: no
\* accepted cookie holds a comma or a whitespace, there are as many
\* cookies as UIDs, and a text with a comma or a whitespace between two
\* other characters is accepted as two cookies at least.
C32_CookieIsOneToken ==
    \A cookies \in AcceptedCookies :
        /\ Len(cookies) = Cardinality(RunStarts(input.text))
        /\ \A k \in 1..Len(cookies) :
               /\ ~has_delimiter(cookies[k])
               /\ \A i \in {KthOf(RunStarts(input.text), k)} :
                      cookies[k] = SubSeq(input.text, i, RunEnd(input.text, i))
        /\ Len(cookies) = input.n
        /\ SplitInside(input.text) => Len(cookies) >= 2

\* Two cookies separated by a comma and a space were accepted in the
\* manual mode
C32_Witness ==
    /\ pc = "manual"
    /\ input.text = CookieAt(1) \o <<",", " ">> \o CookieAt(2)
    /\ output.next = "ASK_FILENAME_MANUAL"
    /\ output.user_data["cookies"] = <<CookieAt(1), CookieAt(2)>>

\* The same in the instant mode, the cookies separated by a space
TwoCookiesOfInstantLine ==
    /\ pc = "instant"
    /\ input.text = CookieAt(1) \o <<" ">> \o CookieAt(2)
    /\ output.next = "ASK_FILENAME_INSTANT"
    /\ output.user_data["instant_parsed"].cookies
           = <<CookieAt(1), CookieAt(2)>>

\* "c_user=12345678; xs=1" passes validate_cookie as a whole, and is
\* rejected after one UID: its two tokens are validated one by one
PairsApartRejected ==
    /\ pc = "manual"
    /\ input.text = C_USER \o Uid1 \o <<";", " ">> \o XS \o <<"1">>
    /\ input.n = 1
    /\ validate_cookie(input.text).ok
    /\ output.next = "ASK_COOKIE"

\* A cookie with a comma after it is accepted as one cookie
CookieWithMarginAccepted ==
    /\ pc \in {"manual", "instant"}
    /\ input.text = <<",">> \o CookieAt(1) \o <<",">>
    /\ AcceptedCookies = {<<CookieAt(1)>>}


\* ------------------------------------------------------------------------
\* validate_cookie on cookies made of pairs
\* ------------------------------------------------------------------------

KeyCUser == <<"c", "_", "u", "s", "e", "r">>

KeyXs == <<"x", "s">>

\* The keys of the pairs: c_user, xs, each of them after another
\* character, and a key that ends with neither
PairKeys == {KeyCUser, <<"x">> \o KeyCUser, KeyXs, <<"y">> \o KeyXs,
             <<"f", "r">>}

PairValues == {Uid1, <<"1">>}

PairSequences ==
    SeqUpTo({[key |-> k, value |-> v] : k \in PairKeys, v \in PairValues},
            MaxList) \ {<<>>}

\* key=value;key=value, with or without a last ";"
PairsText(pairs, last) ==
    Join([i \in DOMAIN pairs |-> pairs[i].key \o <<"=">> \o pairs[i].value],
         <<";">>) \o last

InitCookiePairs ==
    /\ \E pairs \in PairSequences, last \in {<<>>, <<";">>} :
            input = [fn |-> "validate_cookie", arg |-> PairsText(pairs, last),
                     pairs |-> pairs]
    /\ output = <<>>
    /\ doc = <<>>
    /\ pc = "drawn"
    /\ BotIdle
    /\ store = EmptyStore

NextCookiePairs == ApplyValidateCookie

SpecCookiePairs == InitCookiePairs /\ [][NextCookiePairs]_vars

\* The keys of the pairs of the cookie
KeysOf(pairs) == {pairs[i].key : i \in DOMAIN pairs}

\* s ends with tail
EndsWith(s, tail) ==
    /\ Len(s) >= Len(tail)
    /\ SubSeq(s, Len(s) - Len(tail) + 1, Len(s)) = tail

\* C33 as stated: a cookie that validate_cookie accepts has a pair whose
\* key is c_user and a pair whose key is xs.
C33_AcceptedHasBothKeys ==
    (Validated("validate_cookie") /\ output.ok)
        => KeyCUser \in KeysOf(input.pairs) /\ KeyXs \in KeysOf(input.pairs)

\* C33, amended: a cookie that validate_cookie accepts has a pair whose
\* key ends with c_user and a pair whose key ends with xs; the key may be
\* longer.
C33_AcceptedHasKeysEndingSo ==
    (Validated("validate_cookie") /\ output.ok)
        => /\ \E k \in KeysOf(input.pairs) : EndsWith(k, KeyCUser)
           /\ \E k \in KeysOf(input.pairs) : EndsWith(k, KeyXs)

\* "xc_user=12345678;yxs=1;" is accepted
C33_Witness ==
    /\ Validated("validate_cookie")
    /\ input.arg = <<"x">> \o C_USER \o Uid1 \o <<";", "y">> \o XS
                   \o <<"1", ";">>
    /\ output.ok

\* "c_user=12345678;xs=1" is accepted
BothKeysAccepted ==
    /\ Validated("validate_cookie")
    /\ input.arg = CookieAt(1)
    /\ output.ok

\* "c_user=12345678;fr=12345678" is rejected: no key ends with xs
KeyMissingRejected ==
    /\ Validated("validate_cookie")
    /\ input.arg = C_USER \o Uid1 \o <<";", "f", "r", "=">> \o Uid1
    /\ ~output.ok
    /\ output.reason = "required_substring"


\* The pending cookie and UID of a user, or none
HasPending(ud) == "inv_pending" \in DOMAIN ud

\* The update is a password that the password step accepts, or the
\* button that skips the password
PasswordGiven ==
    \/ update'.handler = "inventory_password_skip_callback"
    \/ /\ update'.handler = "inventory_password_handler"
       /\ \A raw \in {strip(update'.text)} :
              raw \notin InventoryCancelTexts /\ PASSWORD_REGEX_fullmatch(raw)

\* The number of entries the module holds
EntriesHeld(entries) ==
    EntriesIn(entries, DOMAIN entries)

\* C34: an entry is stored at the end of a complete input only.  A step
\* of a user that gives a password or skips it while the pending cookie
\* and UID exist appends one entry to the inventory of the user, removes
\* the pending data and ends the conversation; the same step without
\* pending data stores nothing; and no other step (a cookie, a rejected
\* password, a cancel, /start, a menu) adds an entry for anyone.
C34_StoredAtEndOfInputOnly ==
    [][\A u \in Users :
          update'.sender = u
          => /\ PasswordGiven /\ HasPending(users_data[u])
                => /\ Len(Get(INVENTORY_STORE', u, <<>>))
                          = Len(EntriesOf(u)) + 1
                   /\ EntriesHeld(INVENTORY_STORE')
                          = EntriesHeld(INVENTORY_STORE) + 1
                   /\ ~HasPending(users_data'[u])
                   /\ inv_state'[u] = END
             /\ ~(PasswordGiven /\ HasPending(users_data[u]))
                => /\ EntriesHeld(INVENTORY_STORE')
                          <= EntriesHeld(INVENTORY_STORE)
                   /\ Len(Get(INVENTORY_STORE', u, <<>>)) <= Len(EntriesOf(u))
             /\ update'.handler = "inventory_cookie_handler"
                => INVENTORY_STORE' = INVENTORY_STORE
             /\ update'.handler = "inventory_cancel_callback"
                => /\ INVENTORY_STORE' = INVENTORY_STORE
                   /\ ~HasPending(users_data'[u])]_vars

\* An entry was stored with a password and the pending data is gone
C34_Witness ==
    /\ update.handler = "inventory_password_handler"
    /\ update.text = PwdAt(1)
    /\ Len(EntriesOf(update.sender)) = 1
    /\ EntriesOf(update.sender)[1].password = PwdAt(1)
    /\ ~HasPending(users_data[update.sender])
    /\ inv_state[update.sender] = END

\* An entry was stored with the button that skips the password
StoredWithoutPassword ==
    /\ update.handler = "inventory_password_skip_callback"
    /\ Len(EntriesOf(update.sender)) = 1
    /\ EntriesOf(update.sender)[1].password = <<>>
    /\ ~HasPending(users_data[update.sender])

\* A password arrived after /start removed the pending data: nothing is
\* stored
PendingLostStoresNothing ==
    /\ update.handler = "inventory_password_handler"
    /\ update.text = PwdAt(1)
    /\ reply = <<Note("PendingLost", <<>>)>>
    /\ EntriesOf(update.sender) = <<>>
    /\ inv_state[update.sender] = END

\* A rejected password keeps the pending data and stores nothing
RejectedPasswordKeepsPending ==
    /\ update.handler = "inventory_password_handler"
    /\ update.text = PwdBad
    /\ inv_state[update.sender] = "ASK_PASSWORD"
    /\ HasPending(users_data[update.sender])
    /\ EntriesOf(update.sender) = <<>>


\* The text stands in the cookie as a key and what follows its "=": it
\* starts the cookie or comes after a ";", with nothing but whitespace
\* between
StandsAsKey(cookie, text) ==
    \E i \in 1..Len(cookie), p \in 0..Len(cookie) :
        /\ p < i
        /\ p = 0 \/ cookie[p] = ";"
        /\ \A j \in (p + 1)..(i - 1) : cookie[j] \in Whitespace
        /\ i + Len(text) - 1 <= Len(cookie)
        /\ SubSeq(cookie, i, i + Len(text) - 1) = text

\* The digits of the UID are all the digits after the key c_user
UidFollowsKey(cookie, uid) ==
    \E i \in 1..Len(cookie), p \in 0..Len(cookie) :
        /\ p < i
        /\ p = 0 \/ cookie[p] = ";"
        /\ \A j \in (p + 1)..(i - 1) : cookie[j] \in Whitespace
        /\ i + Len(C_USER) + Len(uid) - 1 <= Len(cookie)
        /\ SubSeq(cookie, i, i + Len(C_USER) + Len(uid) - 1) = C_USER \o uid
        /\ \/ i + Len(C_USER) + Len(uid) - 1 = Len(cookie)
           \/ cookie[i + Len(C_USER) + Len(uid)] \notin Digits

\* An entry as the input flow makes it
WellFormedEntry(e) ==
    /\ Len(e.uid) >= 8 /\ Len(e.uid) <= 20
    /\ \A i \in 1..Len(e.uid) : e.uid[i] \in Digits
    /\ UidFollowsKey(e.cookie, e.uid)
    /\ Contains(e.cookie, C_USER)
    /\ StandsAsKey(e.cookie, XS)
    /\ \/ e.password = <<>>
       \/ /\ Len(e.password) >= 6 /\ Len(e.password) <= 64
          /\ \A i \in 1..Len(e.password) : e.password[i] \notin Whitespace

\* C35: every entry of every inventory has a UID of 8 to 20 digits that
\* are the digits after a key c_user of its own cookie, a cookie with
\* c_user= and a key xs, and a password that is empty or has 6 to 64
\* characters none of which is whitespace.
C35_EntriesAreWellFormed ==
    \A u \in DOMAIN INVENTORY_STORE :
        \A i \in 1..Len(INVENTORY_STORE[u]) :
            WellFormedEntry(INVENTORY_STORE[u][i])

\* Both users hold an entry, one with a password and one without
C35_Witness ==
    /\ Len(EntriesOf(1)) = 1
    /\ Len(EntriesOf(Sender)) = 1
    /\ EntriesOf(1)[1] = InventoryEntry(Uid1, PwdAt(1), InventoryCookie(Uid1),
                                        now)
    /\ EntriesOf(Sender)[1] = InventoryEntry(Uid2, <<>>,
                                             InventoryCookie(Uid2), now)

\* A cookie whose UID has three digits is refused
ShortUidRefused ==
    /\ update.handler = "inventory_cookie_handler"
    /\ update.text = InventoryCookie(<<"1", "2", "3">>)
    /\ reply = <<Note("UidNotDetected", <<>>)>>
    /\ inv_state[update.sender] = "ASK_COOKIE"
    /\ ~HasPending(users_data[update.sender])

\* A cookie without xs is refused
CookieWithoutXsRefused ==
    /\ update.handler = "inventory_cookie_handler"
    /\ update.text = C_USER \o Uid1
    /\ reply # <<>> /\ reply[1].reason = "xs"
    /\ inv_state[update.sender] = "ASK_COOKIE"


\* ------------------------------------------------------------------------
\* The documents counted, with the administrator at work
\* ------------------------------------------------------------------------

\* bot_data.json does not exist yet
InitCounters ==
    /\ FunIdle
    /\ BotIdle
    /\ store = EmptyStore

\* The sender in the instant mode, the administrator allowing and blocking
\* users in the admin panel, and /buat of both
NextCounters ==
    \/ InstantStart
    \/ AskInstantPayload
    \/ AskFilenameInstant
    \/ AdminEntry
    \/ AdminMenuRouter
    \/ AdminWhitelistInput
    \/ AdminBlockInput
    \/ AdminBuat

SpecCounters == InitCounters /\ [][NextCounters]_vars

\* sum of created_docs over the records of the users in S
RECURSIVE CreatedBy(_, _)
CreatedBy(users, S) ==
    IF S = {} THEN 0
    ELSE LET u == Lowest(S)
         IN users[u].created_docs + CreatedBy(users, S \ {u})

\* C36: total_docs_created is the sum of created_docs over all records
\* of users.
C36_TotalIsSumOfUsers ==
    store.stats.total_docs_created = CreatedBy(store.users, DOMAIN store.users)

\* The sender, whitelisted by the administrator, received two documents,
\* and the administrator has a record
C36_Witness ==
    /\ store.stats.total_docs_created = 2
    /\ DOMAIN store.users = Users
    /\ store.users[Sender].created_docs = 2
    /\ delivered # <<>>

\* A delivery failed after one that succeeded: one document is counted
CountedOnceAfterFailure ==
    /\ store.stats.total_docs_created = 1
    /\ store.users[Sender].created_docs = 1
    /\ update.handler \in {"ask_filename_manual_handler",
                           "ask_filename_instant_handler"}
    /\ delivered = <<>>
    /\ \E i \in DOMAIN reply : reply[i].kind = "InternalError"

\* The sender was blocked after a document was counted
BlockedAfterDocument ==
    /\ store.stats.total_docs_created = 1
    /\ Sender \in store.blocked

============================================================================
